---- MODULE Spec2Model ----
(***************************************************************************)
(* Safety-and-resumability core of facebook-cleanup: RateLimiter,          *)
(* BlockManager, StateManager, StatisticsReporter, DeletionEngine and the  *)
(* run_cleanup driver of main.py.                                          *)
(*                                                                         *)
(* Time is counted in ticks; one hour is Hour ticks.  Optional values      *)
(* (Python None) are the empty sequence, a present value x is <<x>>.       *)
(***************************************************************************)
EXTENDS Integers, Sequences, FiniteSets, TLC

(* ------------------------------ bounds --------------------------------- *)
Hour == 2               \* ticks per hour
MaxTime == 3            \* the clock stops advancing here
MaxItems == 2           \* items extracted from one page
MaxCalls == 2           \* process_page calls on one engine
MaxPages == 3           \* pages yielded to run_cleanup's loop
MaxSaves == 2           \* save_state calls in the stepwise save model
MaxPerHourArg == 2      \* RateLimiter(max_per_hour=...)
BlockWaitHoursArg == 1  \* BlockManager(block_wait_hours=...)
MaxBlockOps == 4        \* detector runs and backoffs in the BlockManager model
MaxFailures == 1        \* save_state calls that fail in one behaviour
MaxRetriesArg == 4      \* delete_item(max_retries=...)
MaxRecords == 3         \* record_action calls on a RateLimiter driven directly
MaxStateOps == 3        \* calls made on a StateManager driven directly
MaxExternalWrites == 1  \* replacements of the progress file from outside
MaxPageNumber == 2      \* pages one month of the activity log has
MaxReportOps == 3       \* calls made on a StatisticsReporter driven directly
MaxDetectorOps == 3     \* check_for_errors calls on one detector
MaxHandlers == 3        \* handlers in an engine's list
MaxSelectOps == 2       \* delete_item calls on an engine with a given handler list
MaxHandlerOps == 2      \* delete calls made on handlers driven directly

(* --------------------------- configuration ----------------------------- *)
MAX_DELETIONS_PER_HOUR == 50
BLOCK_WAIT_HOURS == 24
\* decimal settings are kept as exact fractions [n, d]
MEAN_DELAY_SECONDS == [n |-> 5, d |-> 1]
DELAY_STD_DEV == [n |-> 3, d |-> 2]
BACKOFF_MULTIPLIER == [n |-> 3, d |-> 2]
STD_DEV_FACTOR == [n |-> 6, d |-> 5]
max_retries == 3

\* `x or default` of the constructors: a falsy argument takes the setting
OrDefault(arg, default) == IF arg = 0 THEN default ELSE arg
max_per_hour == OrDefault(MaxPerHourArg, MAX_DELETIONS_PER_HOUR)
block_wait_hours == OrDefault(BlockWaitHoursArg, BLOCK_WAIT_HOURS)

(* ------------------------------ helpers -------------------------------- *)
Nothing == <<>>
Some(x) == <<x>>
NoTime == 0 - 1         \* last_block_time = None
NoInt == 0              \* current_year / current_month = None (falsy alike)

RECURSIVE Pow(_, _)
Pow(b, e) == IF e = 0 THEN 1 ELSE b * Pow(b, e - 1)
FracMul(a, b) == [n |-> a.n * b.n, d |-> a.d * b.d]
FracPow(a, e) == [n |-> Pow(a.n, e), d |-> Pow(a.d, e)]
FracEq(a, b) == a.n * b.d = b.n * a.d
FracGt(a, b) == a.n * b.d > b.n * a.d

(* ----------------------------- RateLimiter ----------------------------- *)
PruneWindowInclusive(times, t) == SelectSeq(times, LAMBDA x : x >= t - Hour)
\* check_rate_limit, pruning step: keep t > now - 1h
PruneWindow(times, t) == SelectSeq(times, LAMBDA x : x > t - Hour)
\* check_rate_limit, return value on the pruned window
UnderLimitStrict(times) == ~(Len(times) > max_per_hour)
UnderLimit(times) == ~(Len(times) >= max_per_hour)

(* ----------------------------- BlockManager ---------------------------- *)
ShouldContinueOffByOne(bd, lbt, t) ==
    IF ~bd THEN TRUE
    ELSE IF lbt = NoTime THEN TRUE
    ELSE ~((t - lbt) <= block_wait_hours * Hour)
\* should_continue: hours_since_block < block_wait_hours  =>  False
ShouldContinue(bd, lbt, t) ==
    IF ~bd THEN TRUE
    ELSE IF lbt = NoTime THEN TRUE
    ELSE ~((t - lbt) < block_wait_hours * Hour)

BackoffMeanFromDefault(mean, count) ==
    IF count = 0 THEN mean ELSE FracMul(MEAN_DELAY_SECONDS, FracPow(BACKOFF_MULTIPLIER, count))
BackoffStdScaled(std, count) ==
    IF count = 0 THEN std ELSE FracMul(std, FracPow(STD_DEV_FACTOR, count))
\* apply_backoff: new mean_delay / std_dev of the rate limiter
BackoffMean(mean, count) ==
    IF count = 0 THEN mean ELSE FracMul(mean, FracPow(BACKOFF_MULTIPLIER, count))
BackoffStd(std, count) ==
    IF count = 0 THEN std ELSE FracMul(std, STD_DEV_FACTOR)

(* ----------------------------- StateManager ---------------------------- *)
ProgressPath == "progress.json"
BackupPath == "progress.json.bak"
TempPathInPlace == ProgressPath
TempPath == "progress.json.tmp"
Paths == {ProgressPath, BackupPath, "progress.json.tmp"}

\* _default_state
DefaultState(t) ==
    [last_updated |-> t, current_year |-> NoInt, current_month |-> NoInt,
     current_category |-> Nothing, total_deleted |-> 0, deleted_today |-> 0,
     last_url |-> Nothing, errors_encountered |-> 0, block_detected |-> FALSE,
     block_count |-> 0, session_start |-> t]

\* values of the optional text fields: None is <<>>, a str x is <<x>>; a
\* tuple and a datetime object are values a caller's dict can hold as well
PyTuple(x) == <<"tuple", x>>
PyList(x) == <<"list", x>>
PyDatetime(x) == <<"datetime", x>>
IsDatetime(v) == Len(v) = 2 /\ v[1] = "datetime"
\* json.dump raises TypeError on a value it has no encoding for
JsonSerializable(s) ==
    ("current_category" \in DOMAIN s) => ~IsDatetime(s.current_category)
\* what json.load reads back from what json.dump wrote: None, bool, int and
\* str come back as they were, a tuple comes back as a list
JsonValue(v) == IF Len(v) = 2 /\ v[1] = "tuple" THEN PyList(v[2]) ELSE v
JsonEncodeKeepTuple(s) == s
JsonEncode(s) ==
    IF "current_category" \in DOMAIN s
    THEN [s EXCEPT !.current_category = JsonValue(@)]
    ELSE s

\* file contents: a complete JSON document (its decoded content), or a
\* truncated prefix of the document of a dict
Doc(s) == [kind |-> "json", data |-> s]
Truncated(s) == [kind |-> "truncated", data |-> s]
\* a file of zero bytes, and a complete JSON document that is not an object
\* (the array holding s)
EmptyFile == [kind |-> "empty"]
NonObject(s) == [kind |-> "array", data |-> s]
\* what a copy that stops half way leaves of content c
Torn(c) == IF c.kind \in {"json", "array"} THEN Truncated(c.data) ELSE c

ValidateStateAll(s) ==
    \A k \in {"last_updated", "total_deleted", "errors_encountered", "block_detected"} :
        k \in DOMAIN s
\* _validate_state on a parsed dict
ValidateState(s) ==
    \E k \in {"last_updated", "total_deleted", "errors_encountered", "block_detected"} :
        k \in DOMAIN s

\* load_state: the dict, or None: no file, json.load raising on an empty or
\* malformed file, or _validate_state rejecting a non-dict or a dict with
\* none of the expected fields
LoadState(fs) ==
    IF fs[ProgressPath] = Nothing THEN Nothing
    ELSE IF fs[ProgressPath][1].kind # "json" THEN Nothing
    ELSE IF ValidateState(fs[ProgressPath][1].data) THEN Some(fs[ProgressPath][1].data)
    ELSE Nothing

\* get_state: cached dict, else load_state() or _default_state()
GetState(cache, fs, t) ==
    IF cache # Nothing THEN cache[1]
    ELSE IF LoadState(fs) # Nothing THEN LoadState(fs)[1]
    ELSE DefaultState(t)

\* the steps of save_state's try block
StepBackupOnce(fs) ==
    IF fs[ProgressPath] # Nothing /\ fs[BackupPath] = Nothing
    THEN [fs EXCEPT ![BackupPath] = fs[ProgressPath]] ELSE fs
StepBackup(fs) ==
    IF fs[ProgressPath] # Nothing THEN [fs EXCEPT ![BackupPath] = fs[ProgressPath]] ELSE fs
StepBackupTorn(fs) ==
    [fs EXCEPT ![BackupPath] = Some(Torn(fs[ProgressPath][1]))]
StepOpenTemp(fs, s) == [fs EXCEPT ![TempPath] = Some(Truncated(s))]
StepDump(fs, s) == [fs EXCEPT ![TempPath] = Some(Doc(JsonEncode(s)))]
StepRename(fs) == [fs EXCEPT ![ProgressPath] = fs[TempPath], ![TempPath] = Nothing]

SaveFailures == {"none", "backup", "write", "rename"}
\* save_state as one call: the files it leaves when the step `fail` raises
SaveFiles(fs, s, fail) ==
    IF fail = "backup" THEN StepBackupTorn(fs)
    ELSE IF fail = "write" THEN StepOpenTemp(StepBackup(fs), s)
    ELSE IF fail = "rename" THEN StepDump(StepOpenTemp(StepBackup(fs), s), s)
    ELSE StepRename(StepDump(StepOpenTemp(StepBackup(fs), s), s))
\* a failure at the backup step needs a file to back up
CanFail(fs, fail) == fail = "backup" => fs[ProgressPath] # Nothing
\* state["last_updated"] = datetime.now().isoformat(): sets or adds the key
Stamp(s, t) ==
    [k \in DOMAIN s \cup {"last_updated"} |-> IF k = "last_updated" THEN t ELSE s[k]]

CheckAndHandleBlockOnce(detected, bd, lbt, count, t) ==
    IF detected
    THEN [block_detected |-> TRUE, last_block_time |-> t,
          block_count |-> IF bd THEN count ELSE count + 1, result |-> TRUE]
    ELSE [block_detected |-> bd, last_block_time |-> lbt, block_count |-> count,
          result |-> FALSE]
\* check_and_handle_block: the BlockManager fields and the return value
CheckAndHandleBlock(detected, bd, lbt, count, t) ==
    IF detected
    THEN [block_detected |-> TRUE, last_block_time |-> t, block_count |-> count + 1,
          result |-> TRUE]
    ELSE [block_detected |-> bd, last_block_time |-> lbt, block_count |-> count,
          result |-> FALSE]

(* ---------------------------- DeletionEngine --------------------------- *)
AttemptOutcomes ==
    {"success", "timeout message", "network message", "other message",
     "page timeout", "exception"}
IsTransientMessage(o) == o \in {"timeout message", "network message"}

AttemptResultOneMore(outcome, attempt, n) ==
    IF outcome = "success" THEN "return success"
    ELSE IF IsTransientMessage(outcome) \/ outcome = "page timeout"
         THEN IF attempt <= n THEN "retry" ELSE "return failure"
    ELSE "return failure"
AttemptResultRetryAll(outcome, attempt, n) ==
    IF outcome = "success" THEN "return success"
    ELSE IF attempt < n THEN "retry" ELSE "return failure"
\* one pass of delete_item's retry loop (for attempt in range(n)): what the
\* loop does after the invocation number `attempt` (1-based) of
\* handler.delete ended in `outcome`
AttemptResult(outcome, attempt, n) ==
    IF outcome = "success" THEN "return success"
    ELSE IF IsTransientMessage(outcome) \/ outcome = "page timeout"
         THEN IF attempt < n THEN "retry" ELSE "return failure"
    ELSE "return failure"

\* the error entries process_page appends, by their message
BlockStopError == [item |-> "block", error |-> "Action block detected, must wait"]
RateLimitError == [item |-> "rate_limit", error |-> "Rate limit exceeded"]
BlockDetectedError == [item |-> "post", error |-> "Block detected: <message>"]
ItemError(block_word) ==
    [item |-> "post",
     error |-> IF block_word THEN "<failure message with the word block>"
               ELSE "<failure message>"]
\* "block" in error.lower()
HasBlockWord(e) ==
    e.error \in {"Action block detected, must wait", "Block detected: <message>",
                 "<failure message with the word block>"}

EmptyStats == [deleted |-> 0, failed |-> 0, skipped |-> 0, errors |-> <<>>]

ProgressUpdateOverwrite(state, st, bd, count) ==
    [state EXCEPT !.total_deleted = @ + st.deleted,
                  !.deleted_today = st.deleted,
                  !.errors_encountered = @ + Len(st.errors),
                  !.block_detected = bd,
                  !.block_count = count]
\* _update_progress_state: the dict handed to save_state
ProgressUpdate(state, st, bd, count) ==
    [state EXCEPT !.total_deleted = @ + st.deleted,
                  !.deleted_today = @ + st.deleted,
                  !.errors_encountered = @ + Len(st.errors),
                  !.block_detected = bd,
                  !.block_count = count]

(* ------------------------------- state --------------------------------- *)
VARIABLES
    now,                \* the wall clock
    action_times, deleted_count, mean_delay, std_dev,   \* RateLimiter
    block_detected, last_block_time, block_count,       \* BlockManager
    fs,                 \* the files: path -> optional content
    eng_state,          \* _state of the engine's StateManager
    main_state,         \* _state of run_cleanup's StateManager
    pc, n_items, idx, attempt, result, stats, calls,    \* process_page
    sleeps, recorded, backoffs, stop, pre, save_ok, failures, writers,
    mpc, reporter, saved_state, position, pages, exit_code, \* run_cleanup
    spc, save_arg, save_old, saves,                     \* stepwise save_state
    last_op, sc_result, sc_time, cb_result, detect_time, ops,   \* BlockManager calls
    detector,           \* verdict of the last ErrorDetector.check_for_errors
    dcall,              \* delete_item called on its own: max_retries, last outcome
    rl_ok,              \* last return value of check_rate_limit
    sm,                 \* StateManager called on its own: last call, object identities
    trav,               \* TraversalEngine: configuration, generator position, history
    rcall,              \* StatisticsReporter called on its own: last call and argument
    edcall,             \* ErrorDetector.check_for_errors called on its own
    sel,                \* _select_handler / delete_item over a list of handlers
    hcall               \* a handler's delete called on its own: the page's answers, the result

rlVars == <<action_times, deleted_count, mean_delay, std_dev>>
bmVars == <<block_detected, last_block_time, block_count>>
engVars == <<pc, n_items, idx, attempt, result, stats, calls>>
histVars == <<sleeps, recorded, backoffs, stop, pre, save_ok, failures>>
runRest == <<mpc, reporter, saved_state, position, pages, exit_code>>
runVars == <<runRest, main_state>>
saveVars == <<spc, save_arg, save_old, saves>>
blockVars == <<last_op, sc_result, sc_time, cb_result, detect_time, ops, detector>>
unitVars == <<edcall, sel, hcall>>
callVars == <<dcall, rl_ok, sm, trav, rcall, unitVars>>
vars == <<now, rlVars, bmVars, fs, eng_state, writers, engVars, histVars, runVars,
          saveVars, callVars, blockVars>>

(* -------------------------- initial conditions ------------------------- *)
NoFiles == [p \in Paths |-> Nothing]
\* progress states an earlier run can have left behind
PriorStates ==
    {[DefaultState(0) EXCEPT !.total_deleted = 5, !.deleted_today = 2,
                             !.errors_encountered = 1, !.current_year = 2020,
                             !.current_month = 2,
                             !.block_detected = b, !.block_count = IF b THEN 2 ELSE 0]
        : b \in BOOLEAN}
InitialFiles ==
    {NoFiles} \cup {[NoFiles EXCEPT ![ProgressPath] = Some(Doc(s))] : s \in PriorStates}
\* the same, or a progress file that cannot be read back
EngineInitialFiles ==
    InitialFiles \cup {[NoFiles EXCEPT ![ProgressPath] = Some(EmptyFile)]}

InitRateLimiter ==
    /\ action_times = <<>>
    /\ deleted_count = 0
InitIdleEngine ==
    /\ pc = "idle" /\ n_items = 0 /\ idx = 0 /\ attempt = 0 /\ calls = 0
    /\ result = [success |-> FALSE, block_word |-> FALSE]
    /\ stats = EmptyStats
    /\ sleeps = 0 /\ recorded = 0 /\ backoffs = 0
    /\ stop = "none" /\ pre = DefaultState(0) /\ save_ok = FALSE /\ failures = 0
InitIdleRun ==
    /\ mpc = "off" /\ reporter = [total_deleted |-> 0, total_failed |-> 0,
                                  total_skipped |-> 0, errors_encountered |-> 0,
                                  blocks_detected |-> 0]
    /\ saved_state = Nothing /\ position = <<NoInt, NoInt>> /\ pages = 0
    /\ exit_code = NoTime /\ main_state = Nothing
InitIdleSave ==
    /\ spc = "off" /\ save_arg = DefaultState(0) /\ save_old = Nothing /\ saves = 0
InitIdleBlock ==
    /\ last_op = "none" /\ sc_result = TRUE /\ sc_time = NoTime /\ cb_result = FALSE
    /\ detect_time = NoTime /\ ops = 0 /\ detector = FALSE
InitIdleStateCalls ==
    sm = [op |-> "none", ret |-> Nothing, ret_id |-> 0, cache_id |-> 0, next_id |-> 1,
          reads |-> 0, gets |-> 0, ops |-> 0, writes |-> 0, kwargs |-> Nothing,
          saved |-> FALSE]
InitIdleTraversal ==
    trav = [tpc |-> "off", start_year |-> NoInt, min_year |-> NoInt,
            configured |-> NoInt, resume |-> Nothing,
            resume_year |-> NoInt, resume_month |-> NoInt,
            year |-> NoInt, month |-> NoInt, page_number |-> 0,
            first |-> Nothing, last |-> Nothing, skipped |-> FALSE]
InitIdleReporterCalls ==
    rcall = [op |-> "none", state |-> DefaultState(0), page_stats |-> EmptyStats,
             ops |-> 0]
InitIdleUnits ==
    /\ edcall = [op |-> "none", indicators |-> <<>>, url |-> <<>>, content |-> Nothing,
                 detected |-> FALSE, message |-> Nothing, fetched |-> FALSE, ops |-> 0]
    /\ sel = [op |-> "none", handlers |-> <<>>, handler |-> 0, asked |-> 0,
              success |-> FALSE, message |-> "none", deletes |-> 0, ops |-> 0]
    /\ hcall = [op |-> "none", env |-> [link |-> FALSE], success |-> FALSE,
                message |-> "none", verified |-> FALSE, ops |-> 0]
InitIdleCall ==
    /\ dcall = [max_retries |-> max_retries, outcome |-> "none"]
    /\ rl_ok = TRUE
    /\ InitIdleStateCalls /\ InitIdleTraversal /\ InitIdleReporterCalls
    /\ InitIdleUnits

\* DeletionEngine(page, block_manager=...): a fresh BlockManager or an injected
\* one that already holds a block; __init__ applies backoff when it does
Init ==
    /\ now = 0
    /\ InitRateLimiter
    /\ \E injected \in BOOLEAN :
        /\ block_detected = injected
        /\ last_block_time = IF injected THEN 0 ELSE NoTime
        /\ block_count = IF injected THEN 1 ELSE 0
        /\ mean_delay = IF injected THEN BackoffMean(MEAN_DELAY_SECONDS, 1)
                        ELSE MEAN_DELAY_SECONDS
        /\ std_dev = IF injected THEN BackoffStd(DELAY_STD_DEV, 1) ELSE DELAY_STD_DEV
    /\ fs \in EngineInitialFiles
    /\ eng_state = Nothing
    /\ writers = {}
    /\ InitIdleEngine /\ InitIdleRun /\ InitIdleSave /\ InitIdleBlock /\ InitIdleCall

(* ------------------------------ the clock ------------------------------ *)
Tick ==
    /\ now < MaxTime
    /\ now' = now + 1
    /\ UNCHANGED <<rlVars, bmVars, fs, eng_state, writers, engVars, histVars, runVars,
                   saveVars, callVars, blockVars>>

(* ----------------------------- process_page ---------------------------- *)
BeginProcessPagePersistEmpty ==
    /\ calls < MaxCalls
    /\ calls' = calls + 1
    /\ \E n \in 0..MaxItems :
        /\ n_items' = n
        /\ pc' = IF n = 0 THEN "persist" ELSE "block_check"
    /\ idx' = 1
    /\ stats' = EmptyStats
    /\ sleeps' = 0 /\ recorded' = 0 /\ backoffs' = 0
    /\ attempt' = 0
    /\ stop' = "none"
    /\ UNCHANGED <<now, rlVars, bmVars, fs, eng_state, writers, result, pre, save_ok,
                   failures>>
\* entry: extract the items; no items returns the zeroed outcome at once
BeginProcessPage ==
    /\ calls < MaxCalls
    /\ calls' = calls + 1
    /\ \E n \in 0..MaxItems :
        /\ n_items' = n
        /\ pc' = IF n = 0 THEN "returned" ELSE "block_check"
    /\ idx' = 1
    /\ stats' = EmptyStats
    /\ sleeps' = 0 /\ recorded' = 0 /\ backoffs' = 0
    /\ attempt' = 0
    /\ stop' = "none"
    /\ UNCHANGED <<now, rlVars, bmVars, fs, eng_state, writers, result, pre, save_ok,
                   failures>>

BlockCheckNoBreak ==
    /\ pc = "block_check"
    /\ IF ShouldContinue(block_detected, last_block_time, now)
       THEN UNCHANGED <<stats, stop>>
       ELSE /\ stats' = [stats EXCEPT !.errors = Append(@, BlockStopError)]
            /\ stop' = "block"
    /\ pc' = "rate_check"
    /\ UNCHANGED <<now, rlVars, bmVars, fs, eng_state, writers, n_items, idx, attempt,
                   result, calls, sleeps, recorded, backoffs, pre, save_ok, failures,
                   runVars, saveVars, callVars, blockVars>>
\* lines 102-108: the block gate
BlockCheck ==
    /\ pc = "block_check"
    /\ IF ShouldContinue(block_detected, last_block_time, now)
       THEN /\ pc' = "rate_check"
            /\ UNCHANGED <<stats, stop>>
       ELSE /\ stats' = [stats EXCEPT !.errors = Append(@, BlockStopError)]
            /\ stop' = "block"
            /\ pc' = "persist"
    /\ UNCHANGED <<now, rlVars, bmVars, fs, eng_state, writers, n_items, idx, attempt,
                   result, calls, sleeps, recorded, backoffs, pre, save_ok, failures,
                   runVars, saveVars, callVars, blockVars>>

\* lines 110-116: wait_before_action = check_rate_limit, then the sleep
RateCheck ==
    /\ pc = "rate_check"
    /\ action_times' = PruneWindow(action_times, now)
    /\ IF UnderLimit(action_times')
       THEN /\ sleeps' = sleeps + 1
            /\ pc' = "delete"
            /\ UNCHANGED <<stats, stop>>
       ELSE /\ stats' = [stats EXCEPT !.errors = Append(@, RateLimitError)]
            /\ stop' = "rate_limit"
            /\ pc' = "persist"
            /\ UNCHANGED sleeps
    /\ UNCHANGED <<now, deleted_count, mean_delay, std_dev, bmVars, fs, eng_state,
                   writers, n_items, idx, attempt, result, calls, recorded,
                   backoffs, pre, save_ok, failures, runVars, saveVars, callVars, blockVars>>

\* line 119: delete_item; no handler selected fails at once (lines 180-183),
\* otherwise one invocation of handler.delete per step.  attempt counts the
\* invocations made for the current item.
NoHandler ==
    /\ attempt = 0
    /\ result' = [success |-> FALSE, block_word |-> FALSE]
    /\ pc' = "record"
    /\ UNCHANGED attempt
\* lines 187-204: one invocation of handler.delete inside the retry loop of
\* delete_item(page, item, max_retries = n), ending in `outcome`
HandlerAttempt(n, outcome, block_word) ==
    LET r == AttemptResult(outcome, attempt + 1, n) IN
    /\ attempt' = attempt + 1
    /\ IF r = "retry"
       THEN /\ block_word = FALSE
            /\ UNCHANGED <<pc, result>>
       ELSE /\ (r = "return success") => (block_word = FALSE)
            /\ result' = [success |-> r = "return success",
                          block_word |-> block_word]
            /\ pc' = "record"
Delete ==
    /\ pc = "delete"
    /\ \/ NoHandler
       \/ \E outcome \in AttemptOutcomes, block_word \in BOOLEAN :
            HandlerAttempt(max_retries, outcome, block_word)
    /\ UNCHANGED <<now, rlVars, bmVars, fs, eng_state, writers, n_items, idx, stats,
                   calls, histVars, runVars, saveVars, callVars, blockVars>>

RecordActionOnSuccess ==
    /\ pc = "record"
    /\ action_times' = IF result.success THEN Append(action_times, now) ELSE action_times
    /\ deleted_count' = IF result.success THEN deleted_count + 1 ELSE deleted_count
    /\ recorded' = IF result.success THEN recorded + 1 ELSE recorded
    /\ pc' = "error_check"
    /\ UNCHANGED <<now, mean_delay, std_dev, bmVars, fs, eng_state, writers, n_items,
                   idx, attempt, result, stats, calls, sleeps, backoffs, stop, pre,
                   save_ok, failures, runVars, saveVars, callVars, blockVars>>
\* line 122: record_action
RecordAction ==
    /\ pc = "record"
    /\ action_times' = Append(action_times, now)
    /\ deleted_count' = deleted_count + 1
    /\ recorded' = recorded + 1
    /\ pc' = "error_check"
    /\ UNCHANGED <<now, mean_delay, std_dev, bmVars, fs, eng_state, writers, n_items,
                   idx, attempt, result, stats, calls, sleeps, backoffs, stop, pre,
                   save_ok, failures, runVars, saveVars, callVars, blockVars>>

ErrorCheckNoBreak ==
    /\ pc = "error_check"
    /\ \E error_detected \in BOOLEAN, confirmed \in BOOLEAN :
        LET b == CheckAndHandleBlock(error_detected /\ confirmed, block_detected,
                                     last_block_time, block_count, now) IN
        /\ block_detected' = b.block_detected
        /\ last_block_time' = b.last_block_time
        /\ block_count' = b.block_count
        /\ IF error_detected /\ b.result
           THEN /\ mean_delay' = BackoffMean(mean_delay, b.block_count)
                /\ std_dev' = BackoffStd(std_dev, b.block_count)
                /\ backoffs' = backoffs + 1
                /\ stats' = [stats EXCEPT !.errors = Append(@, BlockDetectedError)]
                /\ stop' = "error_block"
           ELSE UNCHANGED <<mean_delay, std_dev, backoffs, stats, stop>>
    /\ pc' = "tally"
    /\ UNCHANGED <<now, action_times, deleted_count, fs, eng_state, writers, n_items,
                   idx, attempt, result, calls, sleeps, recorded, pre, save_ok,
                   failures, runVars, saveVars, callVars, blockVars>>
\* lines 125-140: check_for_errors, check_and_handle_block, apply_backoff
ErrorCheck ==
    /\ pc = "error_check"
    /\ \E error_detected \in BOOLEAN, confirmed \in BOOLEAN :
        LET b == CheckAndHandleBlock(error_detected /\ confirmed, block_detected,
                                     last_block_time, block_count, now) IN
        /\ block_detected' = b.block_detected
        /\ last_block_time' = b.last_block_time
        /\ block_count' = b.block_count
        /\ IF error_detected /\ b.result
           THEN /\ mean_delay' = BackoffMean(mean_delay, b.block_count)
                /\ std_dev' = BackoffStd(std_dev, b.block_count)
                /\ backoffs' = backoffs + 1
                /\ stats' = [stats EXCEPT !.errors = Append(@, BlockDetectedError)]
                /\ stop' = "error_block"
                /\ pc' = "persist"
           ELSE /\ pc' = "tally"
                /\ UNCHANGED <<mean_delay, std_dev, backoffs, stats, stop>>
    /\ UNCHANGED <<now, action_times, deleted_count, fs, eng_state, writers, n_items,
                   idx, attempt, result, calls, sleeps, recorded, pre, save_ok,
                   failures, runVars, saveVars, callVars, blockVars>>

TallyStopOnFailure ==
    /\ pc = "tally"
    /\ stats' = IF result.success
                THEN [stats EXCEPT !.deleted = @ + 1]
                ELSE [stats EXCEPT !.failed = @ + 1,
                                   !.errors = Append(@, ItemError(result.block_word))]
    /\ idx' = idx + 1
    /\ attempt' = 0
    /\ pc' = IF idx + 1 > n_items \/ ~result.success THEN "persist" ELSE "block_check"
    /\ UNCHANGED <<now, rlVars, bmVars, fs, eng_state, writers, n_items, result, calls,
                   histVars, runVars, saveVars, callVars, blockVars>>
\* lines 142-155: tally the result, go to the next item
Tally ==
    /\ pc = "tally"
    /\ stats' = IF result.success
                THEN [stats EXCEPT !.deleted = @ + 1]
                ELSE [stats EXCEPT !.failed = @ + 1,
                                   !.errors = Append(@, ItemError(result.block_word))]
    /\ idx' = idx + 1
    /\ attempt' = 0
    /\ pc' = IF idx + 1 > n_items THEN "persist" ELSE "block_check"
    /\ UNCHANGED <<now, rlVars, bmVars, fs, eng_state, writers, n_items, result, calls,
                   histVars, runVars, saveVars, callVars, blockVars>>

PersistRaises ==
    /\ pc = "persist"
    /\ \E fail \in SaveFailures :
        LET state == GetState(eng_state, fs, now)
            new == Stamp(ProgressUpdate(state, stats, block_detected, block_count), now)
        IN
        /\ CanFail(fs, fail)
        /\ (fail # "none") => failures < MaxFailures
        /\ failures' = IF fail = "none" THEN failures ELSE failures + 1
        /\ pre' = state
        /\ fs' = SaveFiles(fs, new, fail)
        /\ eng_state' = Some(new)
        /\ save_ok' = (fail = "none")
        /\ writers' = IF fail = "none" THEN writers \cup {"engine"} ELSE writers
        /\ pc' = IF fail = "none" THEN "returned" ELSE "idle"
    /\ UNCHANGED <<now, rlVars, bmVars, n_items, idx, attempt, result, stats, calls,
                   sleeps, recorded, backoffs, stop, runVars, saveVars, callVars, blockVars>>
\* line 158: _update_progress_state through the engine's StateManager; what
\* get_state or save_state raise is caught at lines 252-253
Persist ==
    /\ pc = "persist"
    /\ \E fail \in SaveFailures :
        LET state == GetState(eng_state, fs, now)
            new == Stamp(ProgressUpdate(state, stats, block_detected, block_count), now)
        IN
        /\ CanFail(fs, fail)
        /\ (fail # "none") => failures < MaxFailures
        /\ failures' = IF fail = "none" THEN failures ELSE failures + 1
        /\ pre' = state
        /\ fs' = SaveFiles(fs, new, fail)
        /\ eng_state' = Some(new)
        /\ save_ok' = (fail = "none")
        /\ writers' = IF fail = "none" THEN writers \cup {"engine"} ELSE writers
    /\ pc' = "returned"
    /\ UNCHANGED <<now, rlVars, bmVars, n_items, idx, attempt, result, stats, calls,
                   sleeps, recorded, backoffs, stop, runVars, saveVars, callVars, blockVars>>

\* a caller invoking process_page again and again on one engine
Call ==
    /\ pc \in {"idle", "returned"}
    /\ BeginProcessPage
    /\ UNCHANGED <<runVars, saveVars, callVars, blockVars>>

ProcessPageStep ==
    \/ BlockCheck \/ RateCheck \/ Delete \/ RecordAction \/ ErrorCheck \/ Tally
    \/ Persist

Next == Tick \/ Call \/ ProcessPageStep
Spec == Init /\ [][Next]_vars

(* --------------------- delete_item driven by a caller ------------------ *)
\* a DeletionEngine as constructed; delete_item is called directly
InitDelete ==
    /\ now = 0
    /\ InitRateLimiter
    /\ mean_delay = MEAN_DELAY_SECONDS /\ std_dev = DELAY_STD_DEV
    /\ block_detected = FALSE /\ last_block_time = NoTime /\ block_count = 0
    /\ fs = NoFiles /\ eng_state = Nothing /\ writers = {}
    /\ InitIdleEngine /\ InitIdleRun /\ InitIdleSave /\ InitIdleBlock /\ InitIdleCall

deleteFrame == <<now, rlVars, bmVars, fs, eng_state, writers, n_items, idx, stats, calls,
                 histVars, runVars, saveVars, rl_ok, sm, trav, rcall, unitVars,
                 blockVars>>

\* delete_item(page, item, max_retries = n); pc = "record" is the point the
\* call returns to
CallDeleteItem ==
    /\ pc \in {"idle", "record"}
    /\ \E n \in 0..MaxRetriesArg :
        dcall' = [max_retries |-> n, outcome |-> "none"]
    /\ attempt' = 0
    /\ pc' = "delete"
    /\ UNCHANGED <<result, deleteFrame>>

\* lines 180-183: _select_handler found no handler
DeleteNoHandler ==
    /\ pc = "delete"
    /\ NoHandler
    /\ dcall' = [dcall EXCEPT !.outcome = "no handler"]
    /\ UNCHANGED deleteFrame

\* lines 187-204: the next pass of the retry loop
DeleteAttempt ==
    /\ pc = "delete" /\ attempt < dcall.max_retries
    /\ \E outcome \in AttemptOutcomes, block_word \in BOOLEAN :
        /\ HandlerAttempt(dcall.max_retries, outcome, block_word)
        /\ dcall' = [dcall EXCEPT !.outcome = outcome]
    /\ UNCHANGED deleteFrame

\* line 206: range(max_retries) is exhausted without a return, which a
\* handler that was selected reaches only with max_retries = 0
DeleteFallThrough ==
    /\ pc = "delete" /\ attempt >= dcall.max_retries
    /\ result' = [success |-> FALSE, block_word |-> FALSE]
    /\ pc' = "record"
    /\ UNCHANGED <<attempt, dcall, deleteFrame>>

NextDelete == CallDeleteItem \/ DeleteNoHandler \/ DeleteAttempt \/ DeleteFallThrough
SpecDelete == InitDelete /\ [][NextDelete]_vars

TransientOutcomes == {"timeout message", "network message", "page timeout"}

\* C11: delete_item(max_retries = n) invokes handler.delete at most n times;
\* it goes round the loop again only after a transient failure and only
\* while fewer than n invocations were made; a success at invocation k+1
\* returns success with k+1 invocations, and a transient failure at
\* invocation n returns failure with exactly n invocations.
C11_RetryTransient ==
    [][ (pc = "delete" /\ attempt' = attempt + 1) =>
            /\ attempt' <= dcall.max_retries
            /\ (pc' = "delete") <=>
                   (dcall'.outcome \in TransientOutcomes /\ attempt' < dcall.max_retries)
            /\ (dcall'.outcome = "success") => (pc' = "record" /\ result'.success)
            /\ (dcall'.outcome \in TransientOutcomes /\ attempt' = dcall.max_retries)
                   => (pc' = "record" /\ ~result'.success)
    ]_vars
\* two transient failures, then a success at the third of three invocations
C11_Witness ==
    /\ pc = "record" /\ dcall.max_retries = 3 /\ attempt = 3
    /\ dcall.outcome = "success" /\ result.success
\* three transient failures out of three: failure after exactly three invocations
C11_WitnessExhausted ==
    /\ pc = "record" /\ dcall.max_retries = 3 /\ attempt = 3
    /\ dcall.outcome = "page timeout" /\ ~result.success

\* C12: a failure that is not transient (a message with neither 'timeout'
\* nor 'network', or an exception other than a page timeout) is never
\* retried: delete_item returns failure at once, after exactly one
\* invocation when it was the first.
C12_NoRetryNonTransient ==
    [][ (/\ pc = "delete" /\ attempt' = attempt + 1
         /\ dcall'.outcome \in {"other message", "exception"})
        => /\ pc' = "record" /\ ~result'.success
           /\ (attempt = 0) => (attempt' = 1)
    ]_vars
\* an unexpected exception at the first of three allowed invocations
C12_Witness ==
    /\ pc = "record" /\ dcall.max_retries = 3 /\ attempt = 1
    /\ dcall.outcome = "exception" /\ ~result.success


(* -------------------- RateLimiter driven by a caller ------------------- *)
\* RateLimiter(max_per_hour=...) as constructed, nothing else running
InitRate ==
    /\ now = 0
    /\ InitRateLimiter
    /\ mean_delay = MEAN_DELAY_SECONDS /\ std_dev = DELAY_STD_DEV
    /\ block_detected = FALSE /\ last_block_time = NoTime /\ block_count = 0
    /\ fs = NoFiles /\ eng_state = Nothing /\ writers = {}
    /\ InitIdleEngine /\ InitIdleRun /\ InitIdleSave /\ InitIdleBlock /\ InitIdleCall

rateFrame == <<now, mean_delay, std_dev, bmVars, fs, eng_state, writers, engVars,
               histVars, runVars, saveVars, dcall, sm, trav, rcall, unitVars,
               sc_result, sc_time,
               cb_result, detect_time, ops, detector>>

\* record_action(): no check precedes it here
CallRecordAction ==
    /\ deleted_count < MaxRecords
    /\ action_times' = Append(action_times, now)
    /\ deleted_count' = deleted_count + 1
    /\ last_op' = "record_action"
    /\ UNCHANGED <<rl_ok, rateFrame>>

\* check_rate_limit(): prune the window in place, compare its length
CallCheckRateLimit ==
    /\ action_times' = PruneWindow(action_times, now)
    /\ rl_ok' = UnderLimit(action_times')
    /\ last_op' = "check_rate_limit"
    /\ UNCHANGED <<deleted_count, rateFrame>>

NextRate == Tick \/ CallRecordAction \/ CallCheckRateLimit
SpecRate == InitRate /\ [][NextRate]_vars

\* the recorded actions whose timestamp lies in the trailing hour
WindowCount == Cardinality({i \in 1..Len(action_times) : action_times[i] > now - Hour})

\* C14: after any sequence of record_action calls and clock advances, a
\* check_rate_limit() call returns false if and only if at least
\* max_per_hour recorded actions lie in the trailing hour at that moment.
C14_CheckIffWindowFull ==
    [][ (last_op' = "check_rate_limit" /\ now' = now) =>
            (rl_ok' <=> ~(WindowCount >= max_per_hour)) ]_vars
\* a window that was over the limit has aged below it: the check passes
\* again although more than max_per_hour actions were recorded in all
C14_Witness ==
    /\ last_op = "check_rate_limit" /\ rl_ok /\ deleted_count > max_per_hour
    /\ Len(action_times) = max_per_hour - 1
\* the check fails with more than max_per_hour actions in the window
C14_WitnessOver ==
    /\ last_op = "check_rate_limit" /\ ~rl_ok /\ Len(action_times) > max_per_hour

(* ------------------- BlockManager driven by a caller ------------------- *)
\* BlockManager() and RateLimiter() as constructed, nothing else running
InitBlock ==
    /\ now = 0
    /\ InitRateLimiter
    /\ mean_delay = MEAN_DELAY_SECONDS /\ std_dev = DELAY_STD_DEV
    /\ block_detected = FALSE /\ last_block_time = NoTime /\ block_count = 0
    /\ fs = NoFiles /\ eng_state = Nothing /\ writers = {}
    /\ InitIdleEngine /\ InitIdleRun /\ InitIdleSave /\ InitIdleBlock /\ InitIdleCall

\* check_and_handle_block(page, detector) with the detector's verdict
CallCheckAndHandleBlock ==
    /\ ops < MaxBlockOps
    /\ \E detected \in BOOLEAN :
        LET b == CheckAndHandleBlock(detected, block_detected, last_block_time,
                                     block_count, now) IN
        /\ block_detected' = b.block_detected
        /\ last_block_time' = b.last_block_time
        /\ block_count' = b.block_count
        /\ cb_result' = b.result
        /\ detect_time' = IF detected THEN now ELSE detect_time
        /\ detector' = detected
    /\ ops' = ops + 1
    /\ last_op' = "check_and_handle_block"
    /\ UNCHANGED <<now, rlVars, fs, eng_state, writers, engVars, histVars, runVars,
                   saveVars, callVars, sc_result, sc_time>>

\* should_continue()
CallShouldContinue ==
    /\ sc_result' = ShouldContinue(block_detected, last_block_time, now)
    /\ sc_time' = now
    /\ last_op' = "should_continue"
    /\ UNCHANGED <<now, rlVars, bmVars, fs, eng_state, writers, engVars, histVars,
                   runVars, saveVars, callVars, cb_result, detect_time, ops, detector>>

\* apply_backoff(rate_limiter)
CallApplyBackoff ==
    /\ ops < MaxBlockOps
    /\ mean_delay' = BackoffMean(mean_delay, block_count)
    /\ std_dev' = BackoffStd(std_dev, block_count)
    /\ ops' = ops + 1
    /\ last_op' = "apply_backoff"
    /\ UNCHANGED <<now, action_times, deleted_count, bmVars, fs, eng_state, writers,
                   engVars, histVars, runVars, saveVars, callVars, sc_result, sc_time,
                   cb_result, detect_time, detector>>

CallResetAll ==
    /\ block_detected' = FALSE
    /\ last_block_time' = NoTime
    /\ block_count' = 0
    /\ detect_time' = NoTime
    /\ last_op' = "reset"
    /\ UNCHANGED <<now, rlVars, fs, eng_state, writers, engVars, histVars,
                   runVars, saveVars, callVars, sc_result, sc_time, cb_result, ops,
                   detector>>
\* reset()
CallReset ==
    /\ block_detected' = FALSE
    /\ last_block_time' = NoTime
    /\ detect_time' = NoTime
    /\ last_op' = "reset"
    /\ UNCHANGED <<now, rlVars, block_count, fs, eng_state, writers, engVars, histVars,
                   runVars, saveVars, callVars, sc_result, sc_time, cb_result, ops,
                   detector>>

\* get_block_info(): read-only, its can_continue field is should_continue()
CallGetBlockInfo ==
    /\ sc_result' = ShouldContinue(block_detected, last_block_time, now)
    /\ sc_time' = now
    /\ last_op' = "get_block_info"
    /\ UNCHANGED <<now, rlVars, bmVars, fs, eng_state, writers, engVars, histVars,
                   runVars, saveVars, callVars, cb_result, detect_time, ops, detector>>

NextBlock ==
    \/ Tick \/ CallCheckAndHandleBlock \/ CallShouldContinue \/ CallApplyBackoff
    \/ CallReset \/ CallGetBlockInfo
SpecBlock == InitBlock /\ [][NextBlock]_vars

\* C5: with the latest detection at time T = detect_time (none after a
\* reset or on a fresh manager), a should_continue() query made at time t
\* returned false when t < T + block_wait_hours and true when
\* t >= T + block_wait_hours; with no detection it returned true.
C5_WaitGate ==
    (last_op = "should_continue") =>
        (sc_result <=> (detect_time = NoTime
                        \/ sc_time >= detect_time + block_wait_hours * Hour))
\* a query exactly at T+H answered true after a block detected at T > 0
C5_Witness ==
    /\ last_op = "should_continue" /\ detect_time > 0
    /\ sc_time = detect_time + block_wait_hours * Hour /\ sc_result

\* C15: check_and_handle_block returns true exactly when the detector
\* reports an error; it then sets block_detected, stamps last_block_time
\* with the current time and adds one to block_count, also when a block is
\* already held, and a should_continue() that follows at once returns
\* false; on a negative detector it returns false and changes no field.
C15_DetectionHandled ==
    [][ /\ (last_op' = "check_and_handle_block" /\ ops' = ops + 1) =>
              /\ cb_result' <=> detector'
              /\ detector' => /\ block_detected'
                              /\ last_block_time' = now
                              /\ block_count' = block_count + 1
              /\ ~detector' => UNCHANGED <<block_detected, last_block_time, block_count>>
        /\ (/\ last_op = "check_and_handle_block" /\ cb_result
            /\ last_op' = "should_continue" /\ sc_time' = last_block_time)
           => ~sc_result'
    ]_vars
\* a second detection while blocked, then should_continue() at the same time
C15_Witness ==
    /\ last_op = "should_continue" /\ ~sc_result /\ sc_time = last_block_time
    /\ cb_result /\ detector /\ block_count = 2 /\ last_block_time > 0

\* C16: no BlockManager operation lowers block_count; reset() clears
\* block_detected and last_block_time and leaves block_count as it is.
C16_CountNeverDecreases ==
    [][ /\ block_count' >= block_count
        /\ (last_op' = "reset") =>
              /\ ~block_detected' /\ last_block_time' = NoTime
              /\ block_count' = block_count
    ]_vars
\* a reset after two detections: the block is cleared, the count is kept
C16_Witness ==
    /\ last_op = "reset" /\ ~block_detected /\ last_block_time = NoTime
    /\ block_count = 2

\* C18: apply_backoff called with block_count = n turns mean_delay into its
\* value at the time of the call times backoff_multiplier^n: calls compound
\* on the current value.
C18_BackoffCompounds ==
    [][ (last_op' = "apply_backoff" /\ ops' = ops + 1) =>
            mean_delay'.n * mean_delay.d * Pow(BACKOFF_MULTIPLIER.d, block_count)
              = mean_delay.n * Pow(BACKOFF_MULTIPLIER.n, block_count) * mean_delay'.d
    ]_vars
\* backoff at count 1, then at count 2: the default times multiplier^3
C18_Witness ==
    /\ last_op = "apply_backoff" /\ block_count = 2
    /\ mean_delay.n * MEAN_DELAY_SECONDS.d * Pow(BACKOFF_MULTIPLIER.d, 3)
          = MEAN_DELAY_SECONDS.n * Pow(BACKOFF_MULTIPLIER.n, 3) * mean_delay.d

\* C19 (as claimed): every apply_backoff call multiplies std_dev by 1.2,
\* whatever block_count is.
C19_StdDevEveryCall ==
    [][ (last_op' = "apply_backoff" /\ ops' = ops + 1) =>
            std_dev'.n * std_dev.d * STD_DEV_FACTOR.d
              = std_dev.n * STD_DEV_FACTOR.n * std_dev'.d
    ]_vars
\* C19 (amended): an apply_backoff call with block_count > 0 multiplies
\* std_dev by 1.2, the same factor for every positive block_count; a call
\* with block_count = 0 returns at once and changes neither std_dev nor
\* mean_delay.
C19_StdDevFlatFactor ==
    [][ (last_op' = "apply_backoff" /\ ops' = ops + 1) =>
            IF block_count > 0
            THEN std_dev'.n * std_dev.d * STD_DEV_FACTOR.d
                   = std_dev.n * STD_DEV_FACTOR.n * std_dev'.d
            ELSE std_dev' = std_dev /\ mean_delay' = mean_delay
    ]_vars
\* backoff at count 1 and again at count 2: std_dev is the default times 1.2^2
C19_Witness ==
    /\ last_op = "apply_backoff" /\ block_count = 2
    /\ std_dev.n * DELAY_STD_DEV.d * Pow(STD_DEV_FACTOR.d, 2)
          = DELAY_STD_DEV.n * Pow(STD_DEV_FACTOR.n, 2) * std_dev.d

(* ------------------- save_state, one file operation per step ----------- *)
\* one StateManager (cache main_state) over a directory an earlier run left
InitSave ==
    /\ now = 0
    /\ InitRateLimiter
    /\ mean_delay = MEAN_DELAY_SECONDS /\ std_dev = DELAY_STD_DEV
    /\ block_detected = FALSE /\ last_block_time = NoTime /\ block_count = 0
    /\ fs \in InitialFiles
    /\ eng_state = Nothing /\ writers = {}
    /\ InitIdleEngine /\ InitIdleRun /\ InitIdleBlock /\ InitIdleCall
    /\ spc = "idle" /\ save_arg = DefaultState(0) /\ save_old = fs[ProgressPath]
    /\ saves = 0

saveFrame == <<rlVars, bmVars, eng_state, writers, engVars, sleeps, recorded, backoffs,
               stop, pre, save_ok, runRest, callVars, blockVars>>

\* dicts a caller builds itself and hands to save_state: a full state with
\* a category that is None, a str, a tuple or a datetime object, and a dict
\* with a single recognised key
FreshDicts ==
    {[DefaultState(0) EXCEPT !.total_deleted = 3, !.current_category = c] :
        c \in {Nothing, Some("posts"), PyTuple("posts"), PyDatetime("2020-02-01")}}
    \cup {[total_deleted |-> 3]}

\* lines 52-56: the caller's dict gets its last_updated stamp; the dict is
\* the cached one with a counter moved on (update_state, save_state()), or
\* one the caller built
SaveBegin ==
    /\ spc \in {"idle", "failed"} /\ saves < MaxSaves
    /\ \/ /\ \E k \in 0..1 :
               save_arg' = Stamp([GetState(main_state, fs, now)
                                    EXCEPT !.total_deleted = @ + k], now)
          /\ main_state' = Some(save_arg')
       \/ /\ \E s \in FreshDicts : save_arg' = Stamp(s, now)
          /\ UNCHANGED main_state
    /\ save_old' = fs[ProgressPath]
    /\ saves' = saves + 1
    /\ spc' = "stamped"
    /\ UNCHANGED <<now, fs, failures, saveFrame>>

\* lines 60-63: shutil.copy2 to the .bak sibling, first torn, then complete
SaveBackupStart ==
    /\ spc = "stamped"
    /\ IF fs[ProgressPath] # Nothing
       THEN fs' = StepBackupTorn(fs) /\ spc' = "copying"
       ELSE fs' = fs /\ spc' = "backed_up"
    /\ UNCHANGED <<now, main_state, save_arg, save_old, saves, failures, saveFrame>>
SaveBackupEnd ==
    /\ spc = "copying"
    /\ fs' = StepBackup(fs)
    /\ spc' = "backed_up"
    /\ UNCHANGED <<now, main_state, save_arg, save_old, saves, failures, saveFrame>>

\* line 68: open(temp_path, "w")
SaveOpenTemp ==
    /\ spc = "backed_up"
    /\ fs' = StepOpenTemp(fs, save_arg)
    /\ spc' = "opened"
    /\ UNCHANGED <<now, main_state, save_arg, save_old, saves, failures, saveFrame>>

\* line 69: json.dump and close
SaveDump ==
    /\ spc = "opened" /\ JsonSerializable(save_arg)
    /\ fs' = StepDump(fs, save_arg)
    /\ spc' = "dumped"
    /\ UNCHANGED <<now, main_state, save_arg, save_old, saves, failures, saveFrame>>

\* line 72: temp_path.replace(progress_path)
SaveRename ==
    /\ spc = "dumped"
    /\ fs' = StepRename(fs)
    /\ spc' = "renamed"
    /\ UNCHANGED <<now, main_state, save_arg, save_old, saves, failures, saveFrame>>

\* line 75: the cache becomes a copy of the saved dict; save_state returns
SaveReturn ==
    /\ spc = "renamed"
    /\ main_state' = Some(save_arg)
    /\ spc' = "idle"
    /\ UNCHANGED <<now, fs, save_arg, save_old, saves, failures, saveFrame>>

\* lines 79-81: the pending file operation raises OSError, or json.dump
\* raises TypeError; logged and swallowed, save_state returns
SaveException ==
    /\ \/ /\ spc \in {"stamped", "copying", "backed_up", "opened", "dumped"}
          /\ (spc = "stamped") => CanFail(fs, "backup")
          /\ failures < MaxFailures
          /\ failures' = failures + 1
       \/ /\ spc = "opened" /\ ~JsonSerializable(save_arg)
          /\ UNCHANGED failures
    /\ spc' = "failed"
    /\ UNCHANGED <<now, fs, main_state, save_arg, save_old, saves, saveFrame>>

\* the process dies between two file operations
SaveCrash ==
    /\ spc \in {"stamped", "copying", "backed_up", "opened", "dumped", "renamed"}
    /\ spc' = "crashed"
    /\ UNCHANGED <<now, fs, main_state, save_arg, save_old, saves, failures, saveFrame>>

NextSave ==
    \/ Tick \/ SaveBegin \/ SaveBackupStart \/ SaveBackupEnd \/ SaveOpenTemp \/ SaveDump
    \/ SaveRename \/ SaveReturn \/ SaveException \/ SaveCrash
SpecSave == InitSave /\ [][NextSave]_vars

\* C2: at every point of save_state, a crash or an exception after any step
\* included, the file at progress_path is absent, the complete content it
\* had when the save began, or the complete new content.
C2_TargetNeverTorn ==
    \/ fs[ProgressPath] = Nothing
    \/ fs[ProgressPath] = save_old /\ fs[ProgressPath][1].kind = "json"
    \/ fs[ProgressPath] = Some(Doc(JsonEncode(save_arg)))
\* a crash in the middle of the temp write of a second save: the temp file
\* is torn, the target still holds the complete previous content
C2_Witness ==
    /\ spc = "crashed" /\ saves = 2
    /\ fs[TempPath] = Some(Truncated(save_arg))
    /\ fs[ProgressPath] = save_old /\ save_old # Nothing
    /\ save_old # Some(Doc(JsonEncode(save_arg)))

\* C20 (as claimed): once save_state(s) has returned, load_state() returns
\* a dict equal to s up to the last_updated field.
C20_RoundTrip ==
    (spc \in {"idle", "failed"} /\ saves > 0) =>
        /\ LoadState(fs) # Nothing
        /\ Stamp(LoadState(fs)[1], 0) = Stamp(save_arg, 0)
\* C20 (amended): when save_state(s) completed its write and rename and the
\* values of s are ones JSON represents faithfully, load_state() returns a
\* dict equal to s, last_updated being the stamp that save put into s (a
\* tuple in s comes back as a list); when the save failed, the progress
\* file is what it was before the call.
C20_RoundTripWhenSaved ==
    /\ (spc = "idle" /\ saves > 0) =>
          /\ LoadState(fs) = Some(JsonEncode(save_arg))
          /\ (JsonEncode(save_arg) = save_arg) => (LoadState(fs) = Some(save_arg))
    /\ (spc = "failed") => (fs[ProgressPath] = save_old)
\* a caller's dict with a str category, saved over an earlier file and read
\* back equal, stamp included
C20_Witness ==
    /\ spc = "idle" /\ saves = 2 /\ now > 0 /\ save_old # Nothing
    /\ "current_category" \in DOMAIN save_arg
    /\ save_arg.current_category = Some("posts")
    /\ LoadState(fs) = Some(save_arg) /\ LoadState(fs)[1].last_updated = now

(* --------------------------- StatisticsReporter ------------------------ *)
\* update_from_page_stats
UpdateFromPageStats(rep, st) ==
    [rep EXCEPT !.total_deleted = @ + st.deleted,
                !.total_failed = @ + st.failed,
                !.total_skipped = @ + st.skipped,
                !.errors_encountered = @ + Len(st.errors)]
\* state.get(key, default)
StateGet(state, key, default) == IF key \in DOMAIN state THEN state[key] ELSE default
UpdateFromStateAdd(rep, state) ==
    [rep EXCEPT !.total_deleted = @ + StateGet(state, "total_deleted", 0),
                !.errors_encountered = @ + StateGet(state, "errors_encountered", 0),
                !.blocks_detected = IF StateGet(state, "block_detected", FALSE)
                                    THEN 1 ELSE 0]
\* update_from_state
UpdateFromState(rep, state) ==
    [rep EXCEPT !.total_deleted = StateGet(state, "total_deleted", 0),
                !.errors_encountered = StateGet(state, "errors_encountered", 0),
                !.blocks_detected = IF StateGet(state, "block_detected", FALSE)
                                    THEN 1 ELSE 0]

(* ------------------------------ run_cleanup ---------------------------- *)
\* the (year, month) positions the traversal can yield in the model, a
\* window of the descending timeline
RunPositions == {<<2020, 2>>, <<2020, 1>>}
\* a is not chronologically later than b
NotLater(a, b) == a[1] < b[1] \/ (a[1] = b[1] /\ a[2] <= b[2])

\* the process starts over files an earlier run left; nothing is constructed
InitRun ==
    /\ now = 0
    /\ InitRateLimiter
    /\ mean_delay = MEAN_DELAY_SECONDS /\ std_dev = DELAY_STD_DEV
    /\ block_detected = FALSE /\ last_block_time = NoTime /\ block_count = 0
    /\ fs \in InitialFiles
    /\ eng_state = Nothing /\ writers = {}
    /\ InitIdleEngine /\ InitIdleSave /\ InitIdleBlock /\ InitIdleCall
    /\ mpc = "start" /\ reporter = [total_deleted |-> 0, total_failed |-> 0,
                                    total_skipped |-> 0, errors_encountered |-> 0,
                                    blocks_detected |-> 0]
    /\ saved_state = Nothing /\ position = <<NoInt, NoInt>> /\ pages = 0
    /\ exit_code = NoTime /\ main_state = Nothing

\* a save_state(state) call of run_cleanup's StateManager on its cached dict
MainSave(state) ==
    \E fail \in SaveFailures :
        /\ CanFail(fs, fail)
        /\ (fail # "none") => failures < MaxFailures
        /\ failures' = IF fail = "none" THEN failures ELSE failures + 1
        /\ fs' = SaveFiles(fs, Stamp(state, now), fail)
        /\ main_state' = Some(Stamp(state, now))
        /\ writers' = IF fail = "none" THEN writers \cup {"main"} ELSE writers

\* run_cleanup returns and the process exits: the files stay, every object
\* in memory is gone; mpc tells through which return or sys.exit
ExitPositions ==
    {"setup failed", "block detected", "completed", "interrupted", "unexpected error"}
ExitProcess(code, why) ==
    /\ mpc' = why /\ exit_code' = code
    /\ action_times' = <<>> /\ deleted_count' = 0
    /\ mean_delay' = MEAN_DELAY_SECONDS /\ std_dev' = DELAY_STD_DEV
    /\ block_detected' = FALSE /\ last_block_time' = NoTime /\ block_count' = 0
    /\ eng_state' = Nothing
    /\ pc' = "idle" /\ n_items' = 0 /\ idx' = 0 /\ attempt' = 0 /\ calls' = 0
    /\ result' = [success |-> FALSE, block_word |-> FALSE]
    /\ stats' = EmptyStats
    /\ sleeps' = 0 /\ recorded' = 0 /\ backoffs' = 0
    /\ stop' = "none" /\ pre' = DefaultState(0) /\ save_ok' = FALSE
    /\ reporter' = [total_deleted |-> 0, total_failed |-> 0, total_skipped |-> 0,
                    errors_encountered |-> 0, blocks_detected |-> 0]
    /\ saved_state' = Nothing /\ position' = <<NoInt, NoInt>> /\ pages' = 0

\* the files a last save_state(state) of run_cleanup's StateManager leaves
ExitSave(state) ==
    \E fail \in SaveFailures :
        /\ CanFail(fs, fail)
        /\ (fail # "none") => failures < MaxFailures
        /\ failures' = IF fail = "none" THEN failures ELSE failures + 1
        /\ fs' = SaveFiles(fs, Stamp(state, now), fail)
        /\ main_state' = Nothing
        /\ writers' = IF fail = "none" THEN writers \cup {"main"} ELSE writers

\* lines 183-233: StateManager, load_state, StatisticsReporter seeded from
\* the saved state, browser and username, TraversalEngine, and
\* DeletionEngine(page, target_date) with its own fresh RateLimiter,
\* BlockManager and StateManager; its __init__ applies backoff when its
\* BlockManager holds a block
RunStart ==
    /\ mpc = "start"
    /\ \E setup_ok \in BOOLEAN :
        IF setup_ok
        THEN /\ saved_state' = LoadState(fs)
             /\ main_state' = LoadState(fs)
             /\ reporter' = IF LoadState(fs) # Nothing
                            THEN UpdateFromState(reporter, LoadState(fs)[1])
                            ELSE reporter
             /\ mean_delay' = IF block_detected THEN BackoffMean(mean_delay, block_count)
                              ELSE mean_delay
             /\ std_dev' = IF block_detected THEN BackoffStd(std_dev, block_count)
                           ELSE std_dev
             /\ mpc' = "loop"
             /\ UNCHANGED <<exit_code, action_times, deleted_count, bmVars, eng_state,
                            engVars, sleeps, recorded, backoffs, stop, pre, save_ok,
                            position, pages>>
        ELSE /\ ExitProcess(1, "setup failed")
             /\ main_state' = Nothing
    /\ UNCHANGED <<now, fs, writers, failures, saveVars, callVars, blockVars>>

\* lines 246-255: the traversal yields the next page, never a later position
\* than the resume position or the previous page; update_state records it
RunNextPage ==
    /\ mpc = "loop" /\ pages < MaxPages
    /\ \E pos \in RunPositions :
        /\ position # <<NoInt, NoInt>> => NotLater(pos, position)
        /\ (/\ position = <<NoInt, NoInt>> /\ saved_state # Nothing
            /\ saved_state[1].current_year # NoInt)
           => NotLater(pos, <<saved_state[1].current_year, saved_state[1].current_month>>)
        /\ position' = pos
        /\ MainSave([GetState(main_state, fs, now) EXCEPT
                        !.current_year = pos[1], !.current_month = pos[2],
                        !.last_url = Some(pos)])
    /\ pages' = pages + 1
    /\ mpc' = "call"
    /\ UNCHANGED <<now, rlVars, bmVars, eng_state, engVars, sleeps, recorded, backoffs,
                   stop, pre, save_ok, reporter, saved_state, exit_code, saveVars, callVars,
                   blockVars>>

\* line 260: deletion_engine.process_page(current_page)
RunCall ==
    /\ mpc = "call"
    /\ BeginProcessPage
    /\ mpc' = "in_page"
    /\ UNCHANGED <<reporter, saved_state, position, pages, exit_code, main_state,
                   saveVars, callVars, blockVars>>

RunAfterPageIgnoreBlock ==
    /\ mpc = "in_page" /\ pc = "returned"
    /\ IF FALSE
       THEN /\ ExitSave([GetState(main_state, fs, now) EXCEPT !.block_detected = TRUE])
            /\ ExitProcess(1, "block detected")
       ELSE /\ reporter' = UpdateFromPageStats(reporter, stats)
            /\ MainSave([GetState(main_state, fs, now) EXCEPT
                            !.total_deleted = reporter'.total_deleted,
                            !.errors_encountered = reporter'.errors_encountered])
            /\ mpc' = "loop"
            /\ UNCHANGED <<exit_code, rlVars, bmVars, eng_state, engVars, sleeps,
                           recorded, backoffs, stop, pre, save_ok, saved_state,
                           position, pages>>
    /\ UNCHANGED <<now, saveVars, callVars, blockVars>>
\* lines 262-280: fold the outcome into the reporter; a block error saves
\* block_detected and returns 1, otherwise the totals are saved
RunAfterPage ==
    /\ mpc = "in_page" /\ pc = "returned"
    /\ IF \E i \in 1..Len(stats.errors) : HasBlockWord(stats.errors[i])
       THEN /\ ExitSave([GetState(main_state, fs, now) EXCEPT !.block_detected = TRUE])
            /\ ExitProcess(1, "block detected")
       ELSE /\ reporter' = UpdateFromPageStats(reporter, stats)
            /\ MainSave([GetState(main_state, fs, now) EXCEPT
                            !.total_deleted = reporter'.total_deleted,
                            !.errors_encountered = reporter'.errors_encountered])
            /\ mpc' = "loop"
            /\ UNCHANGED <<exit_code, rlVars, bmVars, eng_state, engVars, sleeps,
                           recorded, backoffs, stop, pre, save_ok, saved_state,
                           position, pages>>
    /\ UNCHANGED <<now, saveVars, callVars, blockVars>>

\* lines 298-323: the traversal is exhausted; final save, return 0
RunFinish ==
    /\ mpc = "loop"
    /\ ExitSave([GetState(main_state, fs, now) EXCEPT
                    !.total_deleted = reporter.total_deleted,
                    !.errors_encountered = reporter.errors_encountered])
    /\ ExitProcess(0, "completed")
    /\ UNCHANGED <<now, saveVars, callVars, blockVars>>

\* lines 110-133 and 289-296: SIGINT/SIGTERM or KeyboardInterrupt; the
\* reporter's totals are saved and the process exits with 0.
\* lines 346-364: an unexpected exception does the same and returns 1.
RunAbort ==
    /\ mpc \in {"loop", "call", "in_page"}
    /\ ExitSave([GetState(main_state, fs, now) EXCEPT
                    !.total_deleted = reporter.total_deleted,
                    !.errors_encountered = reporter.errors_encountered])
    /\ \/ ExitProcess(0, "interrupted")
       \/ ExitProcess(1, "unexpected error")
    /\ UNCHANGED <<now, saveVars, callVars, blockVars>>

\* process_page runs only while run_cleanup is inside the call
RunProcessPageStep == mpc = "in_page" /\ ProcessPageStep

\* the run blocks, and the model lets time pass, in the pacing sleep that
\* precedes each deletion (stealth.behavior.wait_before_action)
RunWait ==
    /\ mpc = "in_page" /\ pc = "delete" /\ attempt = 0
    /\ Tick

NextRun ==
    \/ RunWait \/ RunStart \/ RunNextPage \/ RunCall \/ RunProcessPageStep
    \/ RunAfterPage \/ RunFinish \/ RunAbort
SpecRun == InitRun /\ [][NextRun]_vars

\* C3 (as claimed): no write of the progress file during a run lowers the
\* persisted total_deleted, deleted_today or errors_encountered.
C3_CountersNeverDecrease ==
    [][ (fs[ProgressPath] # Nothing /\ fs'[ProgressPath] # Nothing) =>
            /\ fs'[ProgressPath][1].data.total_deleted
                  >= fs[ProgressPath][1].data.total_deleted
            /\ fs'[ProgressPath][1].data.deleted_today
                  >= fs[ProgressPath][1].data.deleted_today
            /\ fs'[ProgressPath][1].data.errors_encountered
                  >= fs[ProgressPath][1].data.errors_encountered
    ]_vars

\* C4 (as claimed): every write of the progress file during a run comes
\* from the cache of one and the same StateManager instance.
C4_SingleStateManager == Cardinality(writers) <= 1

\* C6 (as claimed): a run started over a persisted state that records a
\* block has, once its DeletionEngine is constructed and before the first
\* action, a mean_delay larger than the configured default.
C6_BackoffOnResume ==
    (/\ mpc \in {"loop", "call", "in_page"}
     /\ saved_state # Nothing
     /\ saved_state[1].block_detected /\ saved_state[1].block_count > 0
     /\ deleted_count = 0)
    => FracGt(mean_delay, MEAN_DELAY_SECONDS)

\* C17 (as claimed): no save, in the run that follows an earlier run's file
\* or later in the same run, writes a block_count smaller than the one the
\* progress file held before.
C17_BlockCountCumulative ==
    [][ (fs[ProgressPath] # Nothing /\ fs'[ProgressPath] # Nothing) =>
            fs'[ProgressPath][1].data.block_count >= fs[ProgressPath][1].data.block_count
    ]_vars

(* ===================== properties of the engine (Spec) ================= *)

\* C1: at every moment, over any sequence of process_page calls and clock
\* advances, at most max_per_hour recorded actions lie in the trailing hour.
C1_WindowBounded == WindowCount <= max_per_hour
\* the window is full after actions recorded in more than one call
C1_Witness == WindowCount = max_per_hour /\ calls = 2 /\ recorded > 0 /\ now > 0

C8_RateLimitStop ==
    [][ /\ (/\ pc = "rate_check" /\ pc' # "rate_check"
            /\ WindowCount >= max_per_hour)
           => /\ sleeps' = sleeps
              /\ stats' = [stats EXCEPT !.errors = Append(@, RateLimitError)]
              /\ stop' = "rate_limit" /\ pc' = "persist"
              /\ attempt' = attempt /\ recorded' = recorded
              /\ deleted_count' = deleted_count
        /\ (stop = "rate_limit" /\ stop' = "rate_limit")
           => /\ pc' \in {"persist", "returned"}
              /\ UNCHANGED <<stats, sleeps, attempt, recorded, deleted_count,
                             action_times>>
    ]_vars
\* the batch was stopped at its second item by the rate limit
C8_Witness ==
    /\ pc = "returned" /\ stop = "rate_limit" /\ idx < n_items + 1
    /\ stats.errors # <<>> /\ stats.errors[Len(stats.errors)] = RateLimitError
    /\ WindowCount = max_per_hour

\* C9: an item reached while should_continue() is false gets exactly one
\* synthetic block error; neither it nor a later item of the batch is paced,
\* dispatched to a handler or recorded.
C9_BlockStop ==
    [][ /\ (/\ pc = "block_check" /\ pc' # "block_check"
            /\ ~ShouldContinue(block_detected, last_block_time, now))
           => /\ stats' = [stats EXCEPT !.errors = Append(@, BlockStopError)]
              /\ stop' = "block" /\ pc' = "persist"
              /\ UNCHANGED <<sleeps, attempt, recorded, deleted_count, action_times>>
        /\ (stop = "block" /\ stop' = "block")
           => /\ pc' \in {"persist", "returned"}
              /\ UNCHANGED <<stats, sleeps, attempt, recorded, deleted_count,
                             action_times>>
    ]_vars
\* a call made during the wait period ended with the one block error
C9_Witness ==
    /\ pc = "returned" /\ stop = "block" /\ n_items = MaxItems
    /\ stats.errors = <<BlockStopError>> /\ recorded = 0 /\ sleeps = 0

\* C10: when the error check after a deletion attempt confirms a block,
\* apply_backoff runs exactly once, exactly one error entry is appended for
\* the event (the item's own result is not tallied) and no later item of the
\* batch is attempted.
C10_ErrorBlockStop ==
    [][ /\ (pc = "error_check" /\ block_count' = block_count + 1)
           => /\ backoffs' = backoffs + 1
              /\ mean_delay' = BackoffMean(mean_delay, block_count')
              /\ stats' = [stats EXCEPT !.errors = Append(@, BlockDetectedError)]
              /\ stop' = "error_block" /\ pc' = "persist"
        /\ (stop = "error_block" /\ stop' = "error_block")
           => /\ pc' \in {"persist", "returned"}
              /\ UNCHANGED <<stats, backoffs, mean_delay, std_dev, sleeps, attempt,
                             recorded, deleted_count, action_times>>
    ]_vars
\* a block confirmed after the first item's failed deletion, one item left
C10_Witness ==
    /\ pc = "returned" /\ stop = "error_block" /\ backoffs = 1
    /\ idx < n_items /\ ~result.success
    /\ stats.errors = <<BlockDetectedError>>

\* the items of the current batch whose record_action call has been made:
\* all before the current one, and the current one once past line 122
ItemsRecorded ==
    IF pc \in {"error_check", "tally"} \/ stop = "error_block" THEN idx ELSE idx - 1

\* C13: in process_page every item handed to delete_item gets exactly one
\* record_action call, whatever the result and the number of retries; the
\* passes of the retry loop neither pace (wait_before_action) nor record.
C13_RecordOncePerItem ==
    [][ /\ (pc' # "idle") => (recorded' = ItemsRecorded')
        /\ (pc = "delete") =>
              UNCHANGED <<sleeps, recorded, action_times, deleted_count>>
        /\ (pc = "record" /\ pc' # "record") =>
              /\ recorded' = recorded + 1
              /\ action_times' = Append(action_times, now)
              /\ deleted_count' = deleted_count + 1
              /\ sleeps' = sleeps
    ]_vars
\* the second item failed after three invocations and was recorded once
C13_Witness ==
    /\ pc = "error_check" /\ idx = 2 /\ attempt = 3 /\ ~result.success
    /\ recorded = 2 /\ sleeps = 2


(* ------------------- StateManager driven by a caller ------------------- *)
\* one StateManager (cache main_state) whose methods a caller invokes in any
\* order while the progress file can be replaced from outside. Python
\* objects have identities: sm.cache_id is the identity of the dict in
\* _state (0 for None), sm.ret_id that of the dict the last call returned.
UnrecognizedDict == [current_year |-> 2019]
\* what the progress file can hold: nothing, zero bytes, a cut-off document,
\* a JSON array, an object with none of the expected fields, a saved state
ExternalContents ==
    {Nothing, Some(EmptyFile), Some(Doc(UnrecognizedDict))}
    \cup {Some(Truncated(s)) : s \in PriorStates}
    \cup {Some(NonObject(s)) : s \in PriorStates}
    \cup {Some(Doc(s)) : s \in PriorStates}
\* contents load_state does not accept
Unloadable(c) ==
    \/ c = Nothing
    \/ c # Nothing /\ c[1].kind \in {"empty", "truncated", "array"}
    \/ c # Nothing /\ c[1].kind = "json" /\ ~ValidateState(c[1].data)

InitState ==
    /\ now = 0
    /\ InitRateLimiter
    /\ mean_delay = MEAN_DELAY_SECONDS /\ std_dev = DELAY_STD_DEV
    /\ block_detected = FALSE /\ last_block_time = NoTime /\ block_count = 0
    /\ \E c \in ExternalContents : fs = [NoFiles EXCEPT ![ProgressPath] = c]
    /\ eng_state = Nothing /\ writers = {}
    /\ InitIdleEngine /\ InitIdleRun /\ InitIdleSave /\ InitIdleBlock /\ InitIdleCall

stateFrame == <<rlVars, bmVars, eng_state, writers, engVars, histVars, runRest,
                saveVars, dcall, rl_ok, trav, rcall, unitVars, blockVars>>

\* the record of a get_state() inside a call: a cached dict is returned as
\* the object it is; otherwise the file is opened if it exists and the dict
\* loaded or defaulted is a new object that becomes the cache
SmGet(s, cache, files, t) ==
    IF cache # Nothing
    THEN [s EXCEPT !.ret = cache, !.ret_id = s.cache_id]
    ELSE [s EXCEPT !.ret = Some(GetState(cache, files, t)),
                   !.ret_id = s.next_id, !.cache_id = s.next_id, !.next_id = @ + 1,
                   !.reads = @ + (IF files[ProgressPath] # Nothing THEN 1 ELSE 0)]

SmGetStateReload ==
    /\ sm.ops < MaxStateOps
    /\ sm' = [SmGet(sm, Nothing, fs, now) EXCEPT
                 !.op = "get_state", !.kwargs = Nothing, !.saved = FALSE,
                 !.gets = @ + 1, !.ops = @ + 1]
    /\ main_state' = Some(GetState(Nothing, fs, now))
    /\ UNCHANGED <<now, fs, stateFrame>>
\* get_state()
SmGetState ==
    /\ sm.ops < MaxStateOps
    /\ sm' = [SmGet(sm, main_state, fs, now) EXCEPT
                 !.op = "get_state", !.kwargs = Nothing, !.saved = FALSE,
                 !.gets = @ + 1, !.ops = @ + 1]
    /\ main_state' = Some(GetState(main_state, fs, now))
    /\ UNCHANGED <<now, fs, stateFrame>>

SmLoadStateDropCache ==
    /\ sm.ops < MaxStateOps
    /\ main_state' = LoadState(fs)
    /\ sm' = [sm EXCEPT !.op = "load_state", !.kwargs = Nothing, !.saved = FALSE,
                        !.ret = LoadState(fs),
                        !.ret_id = IF LoadState(fs) # Nothing THEN sm.next_id ELSE 0,
                        !.cache_id = IF LoadState(fs) # Nothing THEN sm.next_id ELSE 0,
                        !.next_id = IF LoadState(fs) # Nothing THEN @ + 1 ELSE @,
                        !.reads = @ + (IF fs[ProgressPath] # Nothing THEN 1 ELSE 0),
                        !.gets = 0, !.ops = @ + 1]
    /\ UNCHANGED <<now, fs, stateFrame>>
\* load_state(): a dict that validates is a new object and becomes the
\* cache; on every other path None is returned and _state is not assigned
SmLoadState ==
    /\ sm.ops < MaxStateOps
    /\ main_state' = IF LoadState(fs) # Nothing THEN LoadState(fs) ELSE main_state
    /\ sm' = [sm EXCEPT !.op = "load_state", !.kwargs = Nothing, !.saved = FALSE,
                        !.ret = LoadState(fs),
                        !.ret_id = IF LoadState(fs) # Nothing THEN sm.next_id ELSE 0,
                        !.cache_id = IF LoadState(fs) # Nothing THEN sm.next_id ELSE @,
                        !.next_id = IF LoadState(fs) # Nothing THEN @ + 1 ELSE @,
                        !.reads = @ + (IF fs[ProgressPath] # Nothing THEN 1 ELSE 0),
                        !.gets = 0, !.ops = @ + 1]
    /\ UNCHANGED <<now, fs, stateFrame>>

\* state.update(kwargs) of update_state, kwargs being empty (None) or
\* total_deleted = n
UpdateDictKnownKeys(d, kwargs) ==
    IF kwargs = Nothing THEN d
    ELSE [k \in DOMAIN d |-> IF k \in DOMAIN kwargs[1] THEN kwargs[1][k] ELSE d[k]]
\* state.update(kwargs): every key of kwargs is set or added; save_state()
\* with no argument changes nothing
UpdateDict(d, kwargs) ==
    IF kwargs = Nothing THEN d
    ELSE [k \in DOMAIN d \cup DOMAIN kwargs[1] |->
            IF k \in DOMAIN kwargs[1] THEN kwargs[1][k] ELSE d[k]]
\* the keyword arguments of the update_state calls
UpdateKwargs == {[total_deleted |-> 7], [current_year |-> 2020, current_page |-> 2]}
\* save_state() on the cached dict after the caller's update: the dict is
\* stamped in place; a save that lands replaces the cache by a copy, a save
\* that fails leaves the stamped dict in the cache
SmSaveWith(op, kwargs) ==
    /\ sm.ops < MaxStateOps
    /\ \E fail \in SaveFailures :
        LET g == SmGet(sm, main_state, fs, now)
            state == Stamp(UpdateDict(g.ret[1], kwargs), now)
        IN
        /\ CanFail(fs, fail)
        /\ fs' = SaveFiles(fs, state, fail)
        /\ main_state' = Some(state)
        /\ sm' = [g EXCEPT !.op = op, !.ret = Nothing, !.ret_id = 0,
                           !.kwargs = kwargs, !.saved = (fail = "none"),
                           !.cache_id = IF fail = "none" THEN g.next_id ELSE @,
                           !.next_id = IF fail = "none" THEN @ + 1 ELSE @,
                           !.gets = 0, !.ops = @ + 1]
    /\ UNCHANGED <<now, stateFrame>>
\* save_state() with no argument
SmSaveState == SmSaveWith("save_state", Nothing)
\* update_state with keyword arguments
SmUpdateState == \E kw \in UpdateKwargs : SmSaveWith("update_state", Some(kw))

\* clear_state(): the file is unlinked and the cache dropped
SmClearState ==
    /\ sm.ops < MaxStateOps
    /\ fs' = [fs EXCEPT ![ProgressPath] = Nothing]
    /\ main_state' = Nothing
    /\ sm' = [sm EXCEPT !.op = "clear_state", !.kwargs = Nothing, !.saved = FALSE,
                        !.ret = Nothing, !.ret_id = 0,
                        !.cache_id = 0, !.gets = 0, !.ops = @ + 1]
    /\ UNCHANGED <<now, stateFrame>>

\* another process, or the user, replaces the progress file
ExternalWrite ==
    /\ sm.writes < MaxExternalWrites
    /\ \E c \in ExternalContents :
        /\ c # fs[ProgressPath]
        /\ fs' = [fs EXCEPT ![ProgressPath] = c]
    /\ sm' = [sm EXCEPT !.writes = @ + 1]
    /\ UNCHANGED <<now, main_state, stateFrame>>

StateTick ==
    /\ now < MaxTime
    /\ now' = now + 1
    /\ UNCHANGED <<fs, main_state, sm, stateFrame>>

NextState ==
    \/ StateTick \/ ExternalWrite \/ SmGetState \/ SmLoadState \/ SmSaveState
    \/ SmUpdateState \/ SmClearState
SpecState == InitState /\ [][NextState]_vars

\* C21: a get_state() that follows a get_state() with no save_state,
\* update_state, load_state or clear_state of the manager in between returns
\* the very object the earlier call returned and does not open the file,
\* whatever was done to the file from outside; a get_state() opens the file
\* at most once, and only when nothing is cached.
C21_GetStateCached ==
    [][ (sm'.op = "get_state" /\ sm'.ops = sm.ops + 1) =>
            /\ (sm.gets > 0) => (sm'.ret_id = sm.ret_id /\ sm'.reads = sm.reads)
            /\ sm'.reads <= sm.reads + 1
            /\ (sm'.reads # sm.reads) => main_state = Nothing ]_vars
\* a second get_state() after the file was replaced from outside by another
\* valid state: the first object is returned, the file was opened once
C21_Witness ==
    /\ sm.op = "get_state" /\ sm.gets = 2 /\ sm.reads = 1 /\ sm.ret_id = 1
    /\ LoadState(fs) # Nothing /\ LoadState(fs) # sm.ret

\* C22 (as claimed): load_state() returns None, and leaves the cache as it
\* was, when the file is missing, empty, malformed, not a JSON object or an
\* object with none of the recognized keys; the get_state() that follows
\* such a load_state(), the file being no better, returns the default state.
C22_LoadNoneThenDefault ==
    [][ /\ (sm'.op = "load_state" /\ sm'.ops = sm.ops + 1 /\ Unloadable(fs[ProgressPath]))
           => (sm'.ret = Nothing /\ main_state' = main_state /\ sm'.cache_id = sm.cache_id)
        /\ (/\ sm'.op = "get_state" /\ sm'.ops = sm.ops + 1
            /\ sm.op = "load_state" /\ sm.ret = Nothing
            /\ Unloadable(fs[ProgressPath]))
           => sm'.ret = Some(DefaultState(now)) ]_vars
\* C22 (amended): load_state() returns None, and leaves the cache as it
\* was, when the file is missing, empty, malformed, not a JSON object or an
\* object with none of the recognized keys; the get_state() that follows,
\* the file being no better, returns the dict that was cached before the
\* load_state(), and a new default state only when nothing was cached.
C22_LoadNoneKeepsCache ==
    [][ /\ (sm'.op = "load_state" /\ sm'.ops = sm.ops + 1 /\ Unloadable(fs[ProgressPath]))
           => (sm'.ret = Nothing /\ main_state' = main_state /\ sm'.cache_id = sm.cache_id)
        /\ (/\ sm'.op = "get_state" /\ sm'.ops = sm.ops + 1
            /\ sm.op = "load_state" /\ sm.ret = Nothing
            /\ Unloadable(fs[ProgressPath]))
           => /\ (main_state # Nothing) =>
                    (sm'.ret = main_state /\ sm'.ret_id = sm.cache_id)
              /\ (main_state = Nothing) =>
                    (sm'.ret = Some(DefaultState(now)) /\ sm'.ret_id # sm.cache_id) ]_vars
\* a load_state() of a file holding a JSON array, made while a loaded state
\* with deletions is cached, returned None and left that state cached
C22_Witness ==
    /\ sm.op = "load_state" /\ sm.ret = Nothing /\ sm.ops = 2
    /\ fs[ProgressPath] # Nothing /\ fs[ProgressPath][1].kind = "array"
    /\ main_state # Nothing /\ main_state[1].total_deleted = 5 /\ sm.cache_id = 1
\* a fresh manager over an object with none of the recognized keys: None,
\* then the default state
C22_WitnessFresh ==
    /\ sm.op = "get_state" /\ sm.ops = 2 /\ sm.reads = 2
    /\ fs[ProgressPath] = Some(Doc(UnrecognizedDict))
    /\ sm.ret = Some(DefaultState(now)) /\ now > 0


(* --------------------- the siblings of the progress file --------------- *)
\* C23: when a save_state that found a progress file has returned after a
\* completed write and rename, the .bak sibling holds exactly the content
\* the progress file had when that save began.
C23_BackupIsPrevious ==
    (spc = "idle" /\ saves > 0 /\ save_old # Nothing) => fs[BackupPath] = save_old
\* a second save: the backup is the first save's content, the target differs
C23_Witness ==
    /\ spc = "idle" /\ saves = 2 /\ save_old # Nothing
    /\ fs[BackupPath] = save_old /\ fs[ProgressPath] # save_old
    /\ save_old[1].data.total_deleted = 3

\* C24 (as claimed): once save_state has returned, after a success or after
\* a swallowed failure, there is no .tmp sibling.
C24_NoTempAfterSave ==
    (spc \in {"idle", "failed"}) => fs[TempPath] = Nothing

\* C25: the save that ends process_page always leads to the return of the
\* batch outcome, unchanged, whether it could read the progress file or not
\* and whether it landed or not; a save that did not land leaves the
\* progress file's content as it was.
C25_PersistFailureSwallowed ==
    [][ (pc = "persist" /\ pc' # "persist") =>
            /\ pc' = "returned" /\ stats' = stats
            /\ (~save_ok') => fs'[ProgressPath] = fs[ProgressPath] ]_vars
\* a batch with a deletion returned although its save failed over a file
\* that could not be read; the empty file is still there
C25_Witness ==
    /\ pc = "returned" /\ ~save_ok /\ failures = 1 /\ stats.deleted > 0
    /\ fs[ProgressPath] = Some(EmptyFile) /\ pre = DefaultState(now)


\* C26: an item whose deletion failed and whose error check found no block
\* is counted in failed with exactly one error entry, nothing else of the
\* outcome moves, and the loop goes on with the next item of the batch (the
\* save that ends the call comes only after the last item).
C26_ItemFailureContinues ==
    [][ (pc = "tally" /\ pc' # "tally" /\ ~result.success) =>
            /\ stats' = [stats EXCEPT !.failed = @ + 1,
                                      !.errors = Append(@, ItemError(result.block_word))]
            /\ idx' = idx + 1
            /\ stop' = stop
            /\ (idx < n_items) => pc' = "block_check"
            /\ (idx = n_items) => pc' = "persist" ]_vars
\* the second item of a batch was deleted after the first one had failed
C26_Witness ==
    /\ pc = "record" /\ idx = 2 /\ n_items = 2 /\ result.success
    /\ stats.failed = 1 /\ Len(stats.errors) = 1 /\ stats.deleted = 0


(* ---------------------------- TraversalEngine -------------------------- *)
December == 12
\* a is the position b or the month right before b
Pred(b) == IF b[2] > 1 THEN <<b[1], b[2] - 1>> ELSE <<b[1] - 1, December>>
\* constructor arguments and resume states of the model: a resume state is
\* None or a dict with current_year and current_month, 0 standing for None
StartYears == {2019, 2020}
MinYears == {2018, 2019}
ResumeStates ==
    {Nothing} \cup {Some(<<y, mo>>) : y \in {NoInt, 2018, 2019, 2021},
                                      mo \in {NoInt, 6, December}}
\* _apply_resume_state: the start_year the engine keeps
ApplyResumeStateAlways(start_year, rs) ==
    IF rs # Nothing /\ rs[1][1] # NoInt /\ rs[1][2] # NoInt
    THEN rs[1][1] ELSE start_year
ApplyResumeState(start_year, rs) ==
    IF rs # Nothing /\ rs[1][1] # NoInt /\ rs[1][2] # NoInt /\ rs[1][1] <= start_year
    THEN rs[1][1] ELSE start_year
\* traverse_months: start_month = resume_month if resume_month else 12
StartMonth(resume_month) == IF resume_month # NoInt THEN resume_month ELSE December

InitTraversal ==
    /\ now = 0
    /\ InitRateLimiter
    /\ mean_delay = MEAN_DELAY_SECONDS /\ std_dev = DELAY_STD_DEV
    /\ block_detected = FALSE /\ last_block_time = NoTime /\ block_count = 0
    /\ fs = NoFiles /\ eng_state = Nothing /\ writers = {}
    /\ InitIdleEngine /\ InitIdleRun /\ InitIdleSave /\ InitIdleBlock /\ InitIdleCall

travFrame == <<now, rlVars, bmVars, fs, eng_state, writers, engVars, histVars, runVars,
               saveVars, dcall, rl_ok, sm, rcall, unitVars, blockVars>>

\* TraversalEngine(page, username, start_year=.., min_year=.., resume_state=..)
TravConstruct ==
    /\ trav.tpc = "off"
    /\ \E sy \in StartYears, my \in MinYears, rs \in ResumeStates :
        trav' = [trav EXCEPT !.tpc = "ready", !.configured = sy, !.min_year = my,
                             !.start_year = ApplyResumeState(sy, rs), !.resume = rs]
    /\ UNCHANGED travFrame

\* traverse_years(resume_state) up to the for loop, called with the state
\* the engine was constructed with
TravStart ==
    /\ trav.tpc = "ready"
    /\ trav' = [trav EXCEPT !.tpc = "year", !.year = trav.start_year,
                            !.resume_year = IF trav.resume # Nothing
                                            THEN trav.resume[1][1] ELSE NoInt,
                            !.resume_month = IF trav.resume # Nothing
                                             THEN trav.resume[1][2] ELSE NoInt]
    /\ UNCHANGED travFrame

\* one pass of 'for year in range(start_year, min_year - 1, -1)': the loop
\* ends, or traverse_months is entered with the resume month for the resume
\* year, or something raises before a month is entered and the year is left
TravYear ==
    /\ trav.tpc = "year"
    /\ \/ /\ trav.year < trav.min_year
          /\ trav' = [trav EXCEPT !.tpc = "done"]
       \/ /\ trav.year >= trav.min_year
          /\ trav' = [trav EXCEPT !.tpc = "month",
                        !.month = StartMonth(IF trav.year = trav.resume_year
                                             THEN trav.resume_month ELSE NoInt)]
       \/ /\ trav.year >= trav.min_year
          /\ trav' = [trav EXCEPT !.year = @ - 1, !.skipped = TRUE]
    /\ UNCHANGED travFrame

\* what a yield leaves in the history
Yield(t) ==
    [t EXCEPT !.first = IF @ = Nothing THEN Some(<<t.year, t.month>>) ELSE @,
              !.last = Some(<<t.year, t.month>>)]

TravNavigateNoCatch ==
    /\ trav.tpc = "month"
    /\ \/ /\ trav.month < 1
          /\ trav' = [trav EXCEPT !.tpc = "year", !.year = @ - 1,
                        !.resume_month = IF trav.year = trav.resume_year THEN NoInt ELSE @]
       \/ /\ trav.month >= 1
          /\ trav' = [Yield(trav) EXCEPT !.tpc = "paging", !.page_number = 1]
       \/ /\ trav.month >= 1
          /\ trav' = [trav EXCEPT !.tpc = "done", !.skipped = TRUE]
    /\ UNCHANGED travFrame
\* one pass of 'for month in range(start_month, 0, -1)': the loop ends and
\* the year is done, or traverse_page loads the month and yields its first
\* page, or the navigation raises and the month is skipped
TravNavigate ==
    /\ trav.tpc = "month"
    /\ \/ /\ trav.month < 1
          /\ trav' = [trav EXCEPT !.tpc = "year", !.year = @ - 1,
                        !.resume_month = IF trav.year = trav.resume_year THEN NoInt ELSE @]
       \/ /\ trav.month >= 1
          /\ trav' = [Yield(trav) EXCEPT !.tpc = "paging", !.page_number = 1]
       \/ /\ trav.month >= 1
          /\ trav' = [trav EXCEPT !.month = @ - 1, !.skipped = TRUE]
    /\ UNCHANGED travFrame

\* the pagination loop of traverse_page: 'See More' gives another page of the
\* same month, or there is no further page, or the click fails or raises
TravSeeMore ==
    /\ trav.tpc = "paging"
    /\ \/ /\ trav.page_number < MaxPageNumber
          /\ trav' = [Yield(trav) EXCEPT !.page_number = @ + 1]
       \/ trav' = [trav EXCEPT !.tpc = "month", !.month = @ - 1, !.page_number = 0]
    /\ UNCHANGED travFrame

NextTraversal == TravConstruct \/ TravStart \/ TravYear \/ TravNavigate \/ TravSeeMore
SpecTraversal == InitTraversal /\ [][NextTraversal]_vars

\* the step is a yield of traverse_page: the first page of a month, or a
\* further page
YieldStep ==
    /\ trav'.tpc = "paging"
    /\ trav.tpc = "month" \/ trav'.page_number = trav.page_number + 1

\* C27: every position traverse_years yields lies in min_year..start_year
\* and 1..12 and is not later than the one yielded before it; as long as
\* nothing raised, it is that same month (a further page) or the month right
\* before it; and the walk ends only below min_year, so a month or year that
\* raised is passed over and the older ones are still walked.
C27_DescendingOrder ==
    /\ [][ YieldStep =>
              /\ trav'.last[1][1] \in trav.min_year..trav.start_year
              /\ trav'.last[1][2] \in 1..December
              /\ (trav.last # Nothing) => NotLater(trav'.last[1], trav.last[1])
              /\ (trav.last # Nothing /\ ~trav.skipped) =>
                    trav'.last[1] \in {trav.last[1], Pred(trav.last[1])}
              /\ (trav.last = Nothing /\ ~trav.skipped) =>
                    /\ trav'.last[1][1] = trav.start_year
                    /\ trav'.last[1][2] \in {December, trav.resume_month} ]_vars
    /\ [](trav.tpc = "done" => trav.year = trav.min_year - 1)
\* January of min_year was yielded after a month had been skipped and two
\* years had been walked
C27_Witness ==
    /\ trav.tpc = "paging" /\ trav.skipped /\ trav.last = Some(<<trav.min_year, 1>>)
    /\ trav.first # Nothing /\ trav.first[1][1] = trav.min_year + 1
    /\ trav.page_number = MaxPageNumber

\* the resume state is a position (Y, M)
HasResumePosition ==
    /\ trav.resume # Nothing
    /\ trav.resume[1][1] # NoInt /\ trav.resume[1][2] # NoInt

\* C28 (as claimed): an engine constructed and iterated with the resume
\* state (Y, M) yields no position later than (Y, M); with Y <= start_year
\* the first position it yields is (Y, M); with Y > start_year it keeps the
\* configured start_year.
C28_ResumeFirstPosition ==
    (trav.tpc # "off" /\ HasResumePosition) =>
        /\ (trav.last # Nothing) => NotLater(trav.last[1], trav.resume[1])
        /\ (trav.resume[1][1] <= trav.configured /\ trav.first # Nothing)
              => trav.first = trav.resume
        /\ (trav.resume[1][1] > trav.configured) => trav.start_year = trav.configured
\* C28 (amended): an engine constructed and iterated with the resume state
\* (Y, M) yields no position later than (Y, M); with Y <= start_year the
\* walk starts in year Y at month M, the months M+1..12 of Y are never
\* yielded, and the first position yielded is (Y, M) unless a navigation
\* raised before anything was yielded; with Y > start_year it keeps the
\* configured start_year.
C28_ResumeNotLater ==
    (trav.tpc # "off" /\ HasResumePosition) =>
        /\ (trav.last # Nothing) => NotLater(trav.last[1], trav.resume[1])
        /\ (trav.resume[1][1] <= trav.configured) =>
              /\ trav.start_year = trav.resume[1][1]
              /\ (trav.first # Nothing) => NotLater(trav.first[1], trav.resume[1])
              /\ (trav.first # Nothing /\ trav.first # trav.resume) => trav.skipped
        /\ (trav.resume[1][1] > trav.configured) => trav.start_year = trav.configured
\* resumed at (2019, 6) under a configured start_year of 2020: June 2019 was
\* yielded first and the walk has reached May
C28_Witness ==
    /\ trav.resume = Some(<<2019, 6>>) /\ trav.configured = 2020
    /\ trav.first = Some(<<2019, 6>>) /\ trav.last = Some(<<2019, 5>>)
    /\ ~trav.skipped
\* a resume year after the configured one: the walk began at December of
\* the configured year
C28_WitnessLaterYear ==
    /\ trav.resume = Some(<<2021, 6>>) /\ trav.configured = 2020
    /\ trav.first = Some(<<2020, December>>) /\ trav.start_year = 2020


(* ---------------- StatisticsReporter driven by a caller ---------------- *)
\* state dicts handed to update_from_state: saved states with and without
\* deletions, errors and a block, and a dict that has only last_updated
ReportStates ==
    {[DefaultState(0) EXCEPT !.total_deleted = n, !.errors_encountered = e,
                             !.block_detected = b] :
        n \in {0, 5}, e \in {0, 1}, b \in BOOLEAN}
    \cup {[last_updated |-> 0]}
\* batch outcomes handed to update_from_page_stats
ReportPageStats ==
    {[deleted |-> d, failed |-> f, skipped |-> k,
      errors |-> IF f = 1 THEN <<ItemError(FALSE)>> ELSE <<>>] :
        d \in 0..2, f \in 0..1, k \in 0..1}

\* StatisticsReporter(): all counters 0
InitReport ==
    /\ now = 0
    /\ InitRateLimiter
    /\ mean_delay = MEAN_DELAY_SECONDS /\ std_dev = DELAY_STD_DEV
    /\ block_detected = FALSE /\ last_block_time = NoTime /\ block_count = 0
    /\ fs = NoFiles /\ eng_state = Nothing /\ writers = {}
    /\ InitIdleEngine /\ InitIdleRun /\ InitIdleSave /\ InitIdleBlock /\ InitIdleCall

reportFrame == <<now, rlVars, bmVars, fs, eng_state, writers, engVars, histVars,
                 mpc, saved_state, position, pages, exit_code, main_state,
                 saveVars, dcall, rl_ok, sm, trav, unitVars, blockVars>>

\* update_from_state(state)
CallUpdateFromState ==
    /\ rcall.ops < MaxReportOps
    /\ \E state \in ReportStates :
        /\ reporter' = UpdateFromState(reporter, state)
        /\ rcall' = [rcall EXCEPT !.op = "update_from_state", !.state = state,
                                  !.ops = @ + 1]
    /\ UNCHANGED reportFrame

\* update_from_page_stats(page_stats)
CallUpdateFromPageStats ==
    /\ rcall.ops < MaxReportOps
    /\ \E st \in ReportPageStats :
        /\ reporter' = UpdateFromPageStats(reporter, st)
        /\ rcall' = [rcall EXCEPT !.op = "update_from_page_stats", !.page_stats = st,
                                  !.ops = @ + 1]
    /\ UNCHANGED reportFrame

NextReport == CallUpdateFromState \/ CallUpdateFromPageStats
SpecReport == InitReport /\ [][NextReport]_vars

\* C29: update_from_state(state) makes total_deleted and errors_encountered
\* the state's values (0 for a missing key) whatever they were, makes
\* blocks_detected 1 or 0 as block_detected tells, and leaves total_failed
\* and total_skipped; update_from_page_stats adds the batch's deleted to
\* total_deleted, so a fresh reporter seeded with N reports N and then N + d.
C29_StateOverwritesStatsAdd ==
    [][ /\ (rcall'.op = "update_from_state" /\ rcall'.ops = rcall.ops + 1) =>
              /\ reporter'.total_deleted = StateGet(rcall'.state, "total_deleted", 0)
              /\ reporter'.errors_encountered
                    = StateGet(rcall'.state, "errors_encountered", 0)
              /\ reporter'.blocks_detected
                    = (IF StateGet(rcall'.state, "block_detected", FALSE) THEN 1 ELSE 0)
              /\ reporter'.total_failed = reporter.total_failed
              /\ reporter'.total_skipped = reporter.total_skipped
        /\ (rcall'.op = "update_from_page_stats" /\ rcall'.ops = rcall.ops + 1) =>
              /\ reporter'.total_deleted
                    = reporter.total_deleted + rcall'.page_stats.deleted
              /\ (rcall.op = "update_from_state" /\ rcall.ops = 1) =>
                    reporter'.total_deleted
                        = StateGet(rcall.state, "total_deleted", 0)
                            + rcall'.page_stats.deleted ]_vars
\* a fresh reporter seeded with 5 reports 7 after a batch with 2 deletions
C29_Witness ==
    /\ rcall.op = "update_from_page_stats" /\ rcall.ops = 2
    /\ "total_deleted" \in DOMAIN rcall.state
    /\ rcall.state.total_deleted = 5 /\ rcall.page_stats.deleted = 2
    /\ reporter.total_deleted = 7
\* a reporter that had counted a batch was overwritten from a state: the
\* batch's deletions are gone from total_deleted, its failures are kept
C29_WitnessOverwrite ==
    /\ rcall.op = "update_from_state" /\ rcall.ops = 2
    /\ rcall.page_stats.deleted = 2 /\ rcall.page_stats.failed = 1
    /\ "total_deleted" \in DOMAIN rcall.state /\ rcall.state.total_deleted = 5
    /\ reporter.total_deleted = 5 /\ reporter.total_failed = 1


(* ------------------------- how run_cleanup ends ------------------------ *)
\* the batch outcome holds an entry run_cleanup takes for a block
OutcomeHasBlock == \E i \in 1..Len(stats.errors) : HasBlockWord(stats.errors[i])

\* C30: run_cleanup leaves the loop through the block exit exactly from a
\* returned batch outcome that holds a block error, never going on to a
\* further page from such an outcome; on that exit the state it saves, when
\* the save lands, has block_detected = true and the exit code is 1. The
\* exit after a completed traversal and the exit on a user interrupt have
\* exit code 0.
C30_BlockExitCode ==
    /\ [][ /\ (mpc' = "block detected" /\ mpc # mpc') =>
                /\ mpc = "in_page" /\ pc = "returned" /\ OutcomeHasBlock
                /\ exit_code' = 1
                /\ (failures' = failures) =>
                      /\ fs'[ProgressPath] # Nothing
                      /\ fs'[ProgressPath][1].kind = "json"
                      /\ fs'[ProgressPath][1].data.block_detected
           /\ (mpc = "in_page" /\ pc = "returned" /\ OutcomeHasBlock /\ mpc' # mpc) =>
                mpc' \in {"block detected", "interrupted", "unexpected error"}
           /\ (mpc \in ExitPositions) => (mpc' = mpc /\ pages' = pages) ]_vars
    /\ [](mpc = "block detected" => exit_code = 1)
    /\ [](mpc \in {"completed", "interrupted"} => exit_code = 0)
\* a failed item whose message has the word block, no block confirmed by the
\* detector: the engine saved block_detected = false, run_cleanup then saved
\* block_detected = true and returned 1
C30_Witness ==
    /\ mpc = "block detected" /\ exit_code = 1 /\ failures = 0
    /\ fs[ProgressPath] # Nothing /\ fs[ProgressPath][1].data.block_detected
    /\ fs[BackupPath] # Nothing /\ ~fs[BackupPath][1].data.block_detected
\* a traversal that ran to its end after a page with a deletion
C30_WitnessCompleted ==
    /\ mpc = "completed" /\ exit_code = 0
    /\ fs[ProgressPath] # Nothing /\ fs[ProgressPath][1].data.total_deleted = 1


(* ---------------- an interrupt while save_state is running ------------- *)
\* the document s whose first bytes were overwritten by the start of another
\* document: what is left when a file object that still holds unwritten
\* text of an earlier json.dump is closed after the file was rewritten and
\* renamed underneath it
Overwritten(s) == [kind |-> "overwritten", data |-> s]

\* signal_handler: the cached dict gets the reporter's totals and is saved
\* by a second save_state, then sys.exit(0). SystemExit unwinds the save it
\* interrupted; when that save had its temp file open inside json.dump, the
\* 'with' block closes that file object, whose pending text goes to the file
\* the handler has just renamed to the progress file: the bytes agree with
\* what is there, or, the two documents differing, they overwrite its start
SaveInterrupt ==
    /\ spc \in {"idle", "failed", "stamped", "copying", "backed_up", "opened", "dumped",
                "renamed"}
    /\ \E fail \in SaveFailures :
        LET state == Stamp([GetState(main_state, fs, now) EXCEPT
                                !.total_deleted = reporter.total_deleted,
                                !.errors_encountered = reporter.errors_encountered], now)
            after == SaveFiles(fs, state, fail)
        IN
        /\ CanFail(fs, fail)
        /\ (fail # "none") => failures < MaxFailures
        /\ failures' = IF fail = "none" THEN failures ELSE failures + 1
        /\ save_ok' = (fail = "none")
        /\ \/ fs' = after
           \/ /\ spc = "opened" /\ fail = "none" /\ save_arg # state
              /\ fs' = [after EXCEPT ![ProgressPath] = Some(Overwritten(JsonEncode(state)))]
    /\ main_state' = Nothing
    /\ spc' = "exited"
    /\ UNCHANGED <<now, save_arg, save_old, saves, rlVars, bmVars, eng_state, writers,
                   engVars, sleeps, recorded, backoffs, stop, pre, runRest, callVars,
                   blockVars>>

NextInterrupt == NextSave \/ SaveInterrupt
SpecInterrupt == InitSave /\ [][NextInterrupt]_vars

\* C31 (as claimed): after the exit that follows an interrupt whose save
\* went through, the progress file is a complete state that load_state()
\* accepts.
C31_InterruptLeavesLoadable ==
    (spc = "exited" /\ save_ok) =>
        /\ fs[ProgressPath] # Nothing /\ fs[ProgressPath][1].kind = "json"
        /\ LoadState(fs) # Nothing


(* ------------------ the resume position after a rate-limit stop -------- *)
\* (current_year, current_month) of the progress file, when it can be read
PersistedPosition(files) ==
    IF LoadState(files) = Nothing THEN <<NoInt, NoInt>>
    ELSE <<LoadState(files)[1].current_year, LoadState(files)[1].current_month>>

\* C32 (as claimed): after a batch that the rate limit stopped, the page
\* still holding unattempted items, the position update of run_cleanup's
\* loop does not move the persisted (current_year, current_month) away from
\* the position of that page.
C32_RateLimitKeepsPosition ==
    [][ (/\ mpc = "loop" /\ mpc' = "call"
         /\ stop = "rate_limit" /\ idx <= n_items
         /\ fs' # fs /\ LoadState(fs') # Nothing)
        => PersistedPosition(fs') = position
    ]_vars


(* ------------------- a run started over a recorded block --------------- *)
\* C33 (as claimed): in a run started over a progress file that records a
\* block detected less than block_wait_hours ago, no handler is invoked
\* and no action is recorded while the wait period has not elapsed.
C33_NoDeletionDuringWait ==
    (/\ mpc \in {"loop", "call", "in_page"}
     /\ saved_state # Nothing /\ saved_state[1].block_detected
     /\ now - saved_state[1].last_updated < block_wait_hours * Hour)
    => (attempt = 0 /\ action_times = <<>>)


(* ------------------- the persisted position during a run --------------- *)
\* C34 (as claimed): during a run in which no file operation fails, after
\* every write of the progress file the persisted (current_year,
\* current_month) is the position of the page the traversal yielded last.
C34_PositionIsCurrentPage ==
    [][ (/\ mpc \in {"loop", "call", "in_page"} /\ mpc' \in {"loop", "call", "in_page"}
         /\ failures' = 0
         /\ fs'[ProgressPath] # fs[ProgressPath])
        => PersistedPosition(fs') = position'
    ]_vars


LowerWord(w) ==
    CASE w = "Checkpoint" -> "checkpoint"
      [] w = "BLOCKED" -> "blocked"
      [] w = "You're going too fast" -> "you're going too fast"
      [] w = "This feature is temporarily blocked" -> "this feature is temporarily blocked"
      [] w = "Action Blocked" -> "action blocked"
      [] w = "Too many requests" -> "too many requests"
      [] w = "Please slow down" -> "please slow down"
      [] w = "PLEASE SLOW DOWN" -> "please slow down"
      [] w = "Temporarily unavailable" -> "temporarily unavailable"
      [] w = "Try again later" -> "try again later"
      [] w = "Something went wrong" -> "something went wrong"
      [] w = "We're having trouble" -> "we're having trouble"
      [] w = "Unable to complete" -> "unable to complete"
      [] w = "Account Restricted" -> "account restricted"
      [] OTHER -> w
Lower(text) == [i \in DOMAIN text |-> LowerWord(text[i])]
Contains(text, w) == \E i \in DOMAIN text : text[i] = w

ERROR_INDICATORS ==
    <<"You're going too fast", "This feature is temporarily blocked", "Action Blocked",
      "Too many requests", "Please slow down", "Temporarily unavailable",
      "Try again later", "Something went wrong", "We're having trouble",
      "Unable to complete">>
error_url_patterns ==
    <<"error", "blocked", "unavailable", "restricted", "checkpoint", "security">>

\* check_url_for_errors
CheckUrlForErrors(url) ==
    \E i \in DOMAIN error_url_patterns : Contains(Lower(url), error_url_patterns[i])

\* the first indicator, in list order, that the lowered content holds; 0: none
FirstIndicator(indicators, content) ==
    LET hits == {i \in DOMAIN indicators :
                    Contains(Lower(content), LowerWord(indicators[i]))}
    IN IF hits = {} THEN 0 ELSE CHOOSE i \in hits : \A j \in hits : i <= j

CheckForErrorsFailClosed(indicators, url, content) ==
    IF CheckUrlForErrors(url)
    THEN [detected |-> TRUE, message |-> Some([kind |-> "url", text |-> url]),
          fetched |-> FALSE]
    ELSE IF content = Nothing
    THEN [detected |-> TRUE, message |-> Some([kind |-> "url", text |-> url]),
          fetched |-> TRUE]
    ELSE IF FirstIndicator(indicators, content[1]) # 0
    THEN [detected |-> TRUE,
          message |-> Some([kind |-> "indicator",
                            text |-> <<indicators[FirstIndicator(indicators, content[1])]>>]),
          fetched |-> TRUE]
    ELSE [detected |-> FALSE, message |-> Nothing, fetched |-> TRUE]
\* check_for_errors(page): url is page.url, content is what page.content()
\* returns, Nothing when it raises; fetched tells whether it was called
CheckForErrors(indicators, url, content) ==
    IF CheckUrlForErrors(url)
    THEN [detected |-> TRUE, message |-> Some([kind |-> "url", text |-> url]),
          fetched |-> FALSE]
    ELSE IF content = Nothing
    THEN [detected |-> FALSE, message |-> Nothing, fetched |-> TRUE]
    ELSE IF FirstIndicator(indicators, content[1]) # 0
    THEN [detected |-> TRUE,
          message |-> Some([kind |-> "indicator",
                            text |-> <<indicators[FirstIndicator(indicators, content[1])]>>]),
          fetched |-> TRUE]
    ELSE [detected |-> FALSE, message |-> Nothing, fetched |-> TRUE]

\* the pages the detector is shown
PageUrls ==
    {<<"facebook", "allactivity">>, <<"facebook", "login">>,
     <<"facebook", "Checkpoint">>, <<"facebook", "allactivity", "BLOCKED">>,
     <<"facebook", "error">>}
PageContents ==
    {Nothing, Some(<<>>), Some(<<"your posts">>), Some(<<"Action Blocked">>),
     Some(<<"your posts", "PLEASE SLOW DOWN", "Try again later">>),
     Some(<<"account restricted">>)}
AdditionalIndicators == {Nothing, Some(<<"Account Restricted">>)}

InitDetector ==
    /\ now = 0
    /\ InitRateLimiter
    /\ mean_delay = MEAN_DELAY_SECONDS /\ std_dev = DELAY_STD_DEV
    /\ block_detected = FALSE /\ last_block_time = NoTime /\ block_count = 0
    /\ fs = NoFiles /\ eng_state = Nothing /\ writers = {}
    /\ InitIdleEngine /\ InitIdleRun /\ InitIdleSave /\ InitIdleBlock /\ InitIdleCall

unitFrame == <<now, rlVars, bmVars, fs, eng_state, writers, engVars, histVars, runVars,
               saveVars, dcall, rl_ok, sm, trav, rcall, blockVars>>

\* ErrorDetector(additional_indicators)
ConstructDetector ==
    /\ edcall.op = "none"
    /\ \E additional \in AdditionalIndicators :
        edcall' = [edcall EXCEPT
                      !.op = "init",
                      !.indicators = IF additional = Nothing THEN ERROR_INDICATORS
                                     ELSE ERROR_INDICATORS \o additional[1]]
    /\ UNCHANGED <<sel, hcall, unitFrame>>

\* check_for_errors(page)
CallCheckForErrors ==
    /\ edcall.op # "none" /\ edcall.ops < MaxDetectorOps
    /\ \E url \in PageUrls, content \in PageContents :
        LET r == CheckForErrors(edcall.indicators, url, content) IN
        edcall' = [edcall EXCEPT !.op = "check_for_errors", !.url = url,
                                 !.content = content, !.detected = r.detected,
                                 !.message = r.message, !.fetched = r.fetched,
                                 !.ops = @ + 1]
    /\ UNCHANGED <<sel, hcall, unitFrame>>

NextDetector == ConstructDetector \/ CallCheckForErrors
SpecDetector == InitDetector /\ [][NextDetector]_vars

\* C36: check_for_errors fails open.  When the URL matches no error pattern
\* and page.content() raises, it returns (False, None); when the URL matches
\* a pattern it returns True without calling page.content().
C36_FailOpen ==
    (edcall.op = "check_for_errors") =>
        /\ (~CheckUrlForErrors(edcall.url) /\ edcall.content = Nothing)
              => (~edcall.detected /\ edcall.message = Nothing)
        /\ CheckUrlForErrors(edcall.url) => (edcall.detected /\ ~edcall.fetched)
\* a clean URL whose content cannot be read
C36_Witness ==
    /\ edcall.op = "check_for_errors" /\ edcall.url = <<"facebook", "allactivity">>
    /\ edcall.content = Nothing /\ edcall.fetched /\ ~edcall.detected
\* an error URL in capitals, over a page whose content holds an indicator
C36_WitnessUrl ==
    /\ edcall.op = "check_for_errors"
    /\ edcall.url = <<"facebook", "Checkpoint">>
    /\ edcall.content = Some(<<"Action Blocked">>)
    /\ edcall.detected /\ ~edcall.fetched
    /\ edcall.message = Some([kind |-> "url", text |-> <<"facebook", "Checkpoint">>])


(* ------------------- _select_handler and delete_item ------------------- *)
\* a handler list as can_handle(item) answers it, in list order
CanHandleAnswers == {"true", "false", "raises"}
HandlerLists ==
    UNION {[1..n -> CanHandleAnswers] : n \in 0..MaxHandlers}

RECURSIVE SelectFromRaiseEnds(_, _)
SelectFromRaiseEnds(handlers, i) ==
    IF i > Len(handlers) THEN 0
    ELSE IF handlers[i] = "true" THEN i
    ELSE IF handlers[i] = "raises" THEN 0
    ELSE SelectFromRaiseEnds(handlers, i + 1)
\* the for loop of _select_handler from position i on: the index of the
\* handler returned, 0 for None
RECURSIVE SelectFrom(_, _)
SelectFrom(handlers, i) ==
    IF i > Len(handlers) THEN 0
    ELSE IF handlers[i] = "true" THEN i
    ELSE SelectFrom(handlers, i + 1)
\* _select_handler(item)
SelectHandler(handlers) == SelectFrom(handlers, 1)

\* delete_item(page, item) on an engine with the given handlers, up to the
\* retry loop
SelDeleteItem ==
    /\ sel.op \in {"none", "returned"} /\ sel.ops < MaxSelectOps
    /\ \E handlers \in HandlerLists :
        LET h == SelectHandler(handlers) IN
        sel' = [op |-> IF h = 0 THEN "returned" ELSE "retrying",
                handlers |-> handlers, handler |-> h,
                asked |-> IF h = 0 THEN Len(handlers) ELSE h,
                success |-> FALSE,
                message |-> IF h = 0 THEN "No handler found for item type" ELSE "none",
                deletes |-> 0, ops |-> sel.ops + 1]
    /\ UNCHANGED <<edcall, hcall, unitFrame>>

\* one pass of the retry loop with the selected handler
SelAttempt ==
    /\ sel.op = "retrying"
    /\ \E outcome \in AttemptOutcomes :
        LET r == AttemptResult(outcome, sel.deletes + 1, max_retries) IN
        sel' = [sel EXCEPT !.deletes = @ + 1,
                           !.op = IF r = "retry" THEN "retrying" ELSE "returned",
                           !.success = (r = "return success"),
                           !.message = outcome]
    /\ UNCHANGED <<edcall, hcall, unitFrame>>

NextSelect == SelDeleteItem \/ SelAttempt
SpecSelect == InitDetector /\ [][NextSelect]_vars

\* C37: _select_handler returns the first handler in list order whose
\* can_handle(item) is true, a handler whose can_handle raises being skipped;
\* when none matches delete_item returns failure with the 'no handler'
\* message at once and no handler's delete is invoked.
C37_FirstMatchWins ==
    (sel.op # "none") =>
        /\ (sel.handler # 0) =>
              /\ sel.handlers[sel.handler] = "true"
              /\ \A j \in 1..(sel.handler - 1) : sel.handlers[j] # "true"
        /\ (sel.handler = 0) =>
              /\ \A j \in DOMAIN sel.handlers : sel.handlers[j] # "true"
              /\ sel.op = "returned" /\ ~sel.success /\ sel.deletes = 0
              /\ sel.message = "No handler found for item type"
        /\ (sel.op = "returned" /\ sel.handler # 0) => sel.deletes > 0
\* the second of two matching handlers is passed over, the raising one before
\* them skipped
C37_Witness ==
    /\ sel.handlers = <<"raises", "true", "true">> /\ sel.handler = 2
    /\ sel.op = "returned" /\ sel.deletes = 1 /\ sel.success
\* nothing matches
C37_WitnessNone ==
    /\ sel.handlers = <<"false", "raises">> /\ sel.handler = 0
    /\ sel.op = "returned" /\ sel.deletes = 0


(* ------------------------- a page without items ------------------------ *)
\* C38: a process_page call that finds no items returns the zeroed outcome
\* at once: the rate limiter (window, count, delays), the block state, the
\* files and the engine's cached state are what they were before the call.
C38_EmptyPageNoEffect ==
    [][ (calls' = calls + 1 /\ n_items' = 0) =>
            /\ pc' = "returned" /\ stats' = EmptyStats
            /\ UNCHANGED <<rlVars, bmVars, fs, eng_state, writers>>
    ]_vars
\* a page without items, after a batch that recorded an action and saved
C38_Witness ==
    /\ pc = "returned" /\ n_items = 0 /\ calls = 2 /\ stats = EmptyStats
    /\ action_times # <<>> /\ eng_state # Nothing
    /\ LoadState(fs) # Nothing /\ LoadState(fs)[1].deleted_today > 0


(* --------------------------- handlers' delete -------------------------- *)
\* What the page answers during one delete: whether the link is found, how
\* the click ends, whether a confirmation page shows and its button can be
\* clicked, how wait_for_load_state ends and the URL the page is on then.
ClickOutcomes == {"ok", "timeout", "error"}
LoadOutcomes == {"ok", "timeout"}
AfterUrls ==
    {<<"facebook", "allactivity">>, <<"facebook", "delete", "confirm">>,
     <<"facebook", "home">>, <<"facebook", "error">>, <<"facebook", "login">>}
PostPages ==
    [link : BOOLEAN, click : ClickOutcomes, confirmation : BOOLEAN, confirm_ok : BOOLEAN,
     load : LoadOutcomes, url : AfterUrls]
\* for a reaction: how wait_for_timeout and wait_for_load_state end, and
\* whether the unlike link is visible at the first and the second look
ReactionPages ==
    [link : BOOLEAN, click : ClickOutcomes, wait : {"ok", "raises"}, visible1 : BOOLEAN,
     idle : {"ok", "raises"}, visible2 : BOOLEAN]

\* DeletionHandler._wait_for_navigation(page, "allactivity")
WaitForNavigation(load, url) ==
    IF load # "ok" THEN FALSE
    ELSE IF Contains(Lower(url), "allactivity") THEN TRUE
    ELSE IF Contains(Lower(url), "delete") \/ Contains(Lower(url), "confirm") THEN FALSE
    ELSE TRUE

\* PostDeletionHandler.delete
PostDelete(e) ==
    IF ~e.link THEN [success |-> FALSE, message |-> "Delete link not found"]
    ELSE IF e.click = "timeout" THEN [success |-> FALSE, message |-> "Timeout"]
    ELSE IF e.click = "error" THEN [success |-> FALSE, message |-> "Error"]
    ELSE IF e.confirmation /\ ~e.confirm_ok
    THEN [success |-> FALSE, message |-> "Could not click confirmation button"]
    ELSE IF ~WaitForNavigation(e.load, e.url)
    THEN IF ~Contains(Lower(e.url), "error") /\ ~Contains(Lower(e.url), "login")
         THEN [success |-> TRUE,
               message |-> "Deletion completed (navigation check inconclusive)"]
         ELSE [success |-> FALSE, message |-> "Navigation failed after deletion"]
    ELSE [success |-> TRUE, message |-> "Post deleted successfully"]

\* ReactionRemovalHandler.remove_reaction
RemoveReaction(e) ==
    IF ~e.link THEN [success |-> FALSE, message |-> "Unlike/Remove link not found"]
    ELSE IF e.click = "timeout" THEN [success |-> FALSE, message |-> "Timeout"]
    ELSE IF e.click = "error" THEN [success |-> FALSE, message |-> "Error"]
    ELSE IF e.wait = "raises"
    THEN [success |-> TRUE, message |-> "Reaction removal attempted"]
    ELSE IF ~e.visible1
    THEN [success |-> TRUE, message |-> "Reaction removed successfully"]
    ELSE IF e.idle = "raises"
    THEN [success |-> TRUE, message |-> "Reaction removal attempted"]
    ELSE IF ~e.visible2
    THEN [success |-> TRUE, message |-> "Reaction removed successfully"]
    ELSE [success |-> TRUE, message |-> "Reaction removal attempted (status unclear)"]

\* the post-action state shows the deletion: the page is back on the
\* activity log, or the unlike link was seen to be gone
PostVerified(e) == e.load = "ok" /\ Contains(Lower(e.url), "allactivity")
ReactionVerified(e) ==
    e.wait = "ok" /\ (~e.visible1 \/ (e.idle = "ok" /\ ~e.visible2))

\* PostDeletionHandler().delete(page, item)
CallPostDelete ==
    /\ hcall.ops < MaxHandlerOps
    /\ \E e \in PostPages :
        hcall' = [op |-> "post", env |-> e, success |-> PostDelete(e).success,
                  message |-> PostDelete(e).message, verified |-> PostVerified(e),
                  ops |-> hcall.ops + 1]
    /\ UNCHANGED <<edcall, sel, unitFrame>>

\* ReactionRemovalHandler().delete(page, item)
CallRemoveReaction ==
    /\ hcall.ops < MaxHandlerOps
    /\ \E e \in ReactionPages :
        hcall' = [op |-> "reaction", env |-> e, success |-> RemoveReaction(e).success,
                  message |-> RemoveReaction(e).message, verified |-> ReactionVerified(e),
                  ops |-> hcall.ops + 1]
    /\ UNCHANGED <<edcall, sel, unitFrame>>

NextHandler == CallPostDelete \/ CallRemoveReaction
SpecHandler == InitDetector /\ [][NextHandler]_vars

\* C39 (as claimed): a handler's delete returns success only when the
\* post-action state was verified; a failed or inconclusive verification
\* gives failure.
C39_SuccessOnlyVerified ==
    (hcall.op # "none" /\ hcall.success) => hcall.verified


(* ------------------------- update_state with keyword fields ---------------------- *)
\* x holds every field of kwargs with its value and, last_updated apart,
\* every other field of `before` with the value it had; no other field
MergedInto(x, before, kwargs) ==
    /\ DOMAIN x = DOMAIN before \cup DOMAIN kwargs \cup {"last_updated"}
    /\ \A k \in DOMAIN kwargs : x[k] = kwargs[k]
    /\ \A k \in DOMAIN before \ (DOMAIN kwargs \cup {"last_updated"}) : x[k] = before[k]

\* C40: after update_state with keyword fields the dict get_state() returns holds
\* every given field with its new value, fields the state did not have
\* included, and every other field except last_updated with the value
\* get_state() had for it before; so does the progress file when the save
\* landed.
C40_UpdateMerges ==
    [][ (sm'.op = "update_state" /\ sm'.ops = sm.ops + 1) =>
            /\ MergedInto(GetState(main_state', fs', now'),
                          GetState(main_state, fs, now), sm'.kwargs[1])
            /\ sm'.saved =>
                  /\ LoadState(fs') # Nothing
                  /\ MergedInto(LoadState(fs')[1],
                                GetState(main_state, fs, now), sm'.kwargs[1])
    ]_vars
\* an update that added a field to a state loaded from the file and landed
C40_Witness ==
    /\ sm.op = "update_state" /\ sm.saved
    /\ sm.kwargs = Some([current_year |-> 2020, current_page |-> 2])
    /\ LoadState(fs) # Nothing
    /\ "current_page" \in DOMAIN LoadState(fs)[1]
    /\ LoadState(fs)[1].current_page = 2 /\ LoadState(fs)[1].total_deleted = 5
    /\ main_state = LoadState(fs)
\* an update whose save failed: the cache holds the merge, the file does not
C40_WitnessUnsaved ==
    /\ sm.op = "update_state" /\ ~sm.saved
    /\ sm.kwargs = Some([total_deleted |-> 7])
    /\ main_state # Nothing /\ main_state[1].total_deleted = 7
    /\ LoadState(fs) # Nothing /\ LoadState(fs)[1].total_deleted = 5

====
